---- MODULE Spec2Model ----
(***************************************************************************)
(* State-machine model of the local-first resource layer of fetchling:     *)
(* the TableRegistry (two-phase table registration and batched Dexie       *)
(* migrations) and the SWR operations built on it.                         *)
(***************************************************************************)
EXTENDS Integers, Sequences, FiniteSets, TLC

\* ---------------------------------------------------------------- bounds
MaxNames == 2
MaxCalls == 3
MaxRegs == 3
MaxOps == 2
MaxReadOps == 1
MaxWriteOps == 2
MaxVer == 2

AllNames == <<"tags", "users", "posts", "notes", "spaces">>
Names == {AllNames[i] : i \in 1..MaxNames}
Calls == 1..MaxCalls

\* keyFields each resource is declared with: composite for "tags", none otherwise
KeyFieldsOf(name) == IF name = "tags" THEN <<"spaceId", "tagName">> ELSE <<>>

KeyFieldChoices == {KeyFieldsOf(n) : n \in Names}

\* Query's constructor declares version(1).stores({})
InitialVersion == 1

VARIABLES
    pendingTables,      \* TableRegistry.pendingTables : Map<name, keyFields>
    registeredTables,   \* TableRegistry.registeredTables : Set<name>
    registrationQueue,  \* tail of the promise chain: 0 = Promise.resolve(), else a call
    dbOpen,             \* db.isOpen()
    verno,              \* db.verno
    stores,             \* schema applied through db.version(n).stores(...)
    calls,              \* the initializeAll invocations, one record per call
    event,              \* outcome of the last synchronous registry operation
    epoch,              \* number of registerTable calls accepted so far
    accepted,           \* names ever accepted by registerTable
    opened,             \* names whose migration has completed its db.open()
    table,              \* records of the resource's Dexie table, by identifier
    server,             \* the API's version of each entity (0 = it has none)
    ops,                \* the resource operations in flight, one record per call
    pure,               \* one application of a pure utility: arguments and result
    qcache,             \* queryClient's cache: the entries set with setQueryData
    hook                \* one mounted useDebouncedUpdate: its refs, timers and calls

regVars == <<pendingTables, registeredTables, registrationQueue, dbOpen, verno,
             stores, calls, event, epoch, accepted, opened>>

opVars == <<table, server, ops>>

vars == <<pendingTables, registeredTables, registrationQueue, dbOpen, verno,
          stores, calls, event, epoch, accepted, opened, table, server, ops,
          pure, qcache, hook>>

PendingNames == DOMAIN pendingTables

NoCall == [pc |-> "idle", tables |-> <<>>, prev |-> 0, job |-> "none",
           applied |-> {}, vFrom |-> 0, vTo |-> 0, epoch |-> 0, accepted |-> {}]

NoEvent == [op |-> "none", name |-> "", outcome |-> "none"]

\* no utility has been applied
NoPure == [fn |-> "none", done |-> FALSE]

\* ------------------------------------------------------- TableRegistry
\* registerTable's duplicate test
IsKnownPendingOnly(name) == name \in PendingNames

IsKnown(name) == name \in PendingNames \/ name \in registeredTables

HasTable(name) == name \in PendingNames \/ name \in registeredTables

\* getTable: the handle (here the table's name) or "absent"
GetTable(name) == IF name \notin registeredTables THEN "absent" ELSE name

KeySpec(keyFields) ==
    IF Len(keyFields) > 0
    THEN [compound |-> TRUE, fields |-> keyFields]
    ELSE [compound |-> FALSE, fields |-> <<"id">>]

\* createTables' filter of already registered tables
NewTablesUnfiltered(tbls) == DOMAIN tbls

NewTables(tbls) == {n \in DOMAIN tbls : n \notin registeredTables}

\* the promise the queued callback of call c is chained on has fulfilled
PrevFulfilledUnchained(c) == TRUE

PrevFulfilled(c) ==
    IF calls[c].prev = 0 THEN TRUE ELSE calls[calls[c].prev].job = "fulfilled"

PrevRejected(c) ==
    IF calls[c].prev = 0 THEN FALSE ELSE calls[calls[c].prev].job = "rejected"

\* what initializeAll does to the pending map once createTables has resolved
PendingAfterInitKept == pendingTables

PendingAfterInit == <<>>

RegisterTable(name, keyFields) ==
    IF IsKnown(name)
    THEN /\ event' = [op |-> "registerTable", name |-> name, outcome |-> "throw"]
         /\ UNCHANGED <<pendingTables, registeredTables, registrationQueue, dbOpen,
                        verno, stores, calls, epoch, accepted, opened>>
    ELSE /\ epoch < MaxRegs
         /\ pendingTables' = [n \in PendingNames \cup {name} |->
                                 IF n = name THEN keyFields ELSE pendingTables[n]]
         /\ event' = [op |-> "registerTable", name |-> name, outcome |-> "ok"]
         /\ epoch' = epoch + 1
         /\ accepted' = accepted \cup {name}
         /\ UNCHANGED <<registeredTables, registrationQueue, dbOpen, verno, stores,
                        calls, opened>>

\* the synchronous part of initializeAll, up to the await inside createTables
InitializeAll(c) ==
    /\ calls[c].pc = "idle"
    /\ \A d \in Calls : d < c => calls[d].pc # "idle"
    /\ IF PendingNames = {}
       THEN /\ calls' = [calls EXCEPT ![c] = [NoCall EXCEPT !.pc = "resolved",
                                                 !.epoch = epoch,
                                                 !.accepted = accepted]]
            /\ UNCHANGED registrationQueue
       ELSE /\ calls' = [calls EXCEPT ![c] = [NoCall EXCEPT !.pc = "awaitCreateTables",
                                                 !.tables = pendingTables,
                                                 !.prev = registrationQueue,
                                                 !.job = "queued",
                                                 !.epoch = epoch,
                                                 !.accepted = accepted]]
            /\ registrationQueue' = c
    /\ event' = [op |-> "initializeAll", name |-> "", outcome |-> "called"]
    /\ UNCHANGED <<pendingTables, registeredTables, dbOpen, verno, stores, epoch,
                   accepted, opened>>

\* the callback queued on registrationQueue, up to its await db.open()
QueuedJob(c) ==
    /\ calls[c].job = "queued"
    /\ \/ /\ PrevRejected(c)
          /\ calls' = [calls EXCEPT ![c].job = "rejected"]
          /\ UNCHANGED <<registeredTables, dbOpen, verno, stores>>
       \/ /\ ~PrevRejected(c)
          /\ PrevFulfilled(c)
          /\ LET newTables == NewTables(calls[c].tables) IN
             IF newTables = {}
             THEN /\ calls' = [calls EXCEPT ![c].job = "fulfilled"]
                  /\ UNCHANGED <<registeredTables, dbOpen, verno, stores>>
             ELSE /\ dbOpen' = FALSE
                  /\ stores' = [n \in DOMAIN stores \cup newTables |->
                                   IF n \in newTables
                                   THEN KeySpec(calls[c].tables[n])
                                   ELSE stores[n]]
                  /\ registeredTables' = registeredTables \cup newTables
                  /\ verno' = verno + 1
                  /\ calls' = [calls EXCEPT ![c].job = "opening",
                                            ![c].applied = newTables,
                                            ![c].vFrom = verno,
                                            ![c].vTo = verno + 1]
    /\ UNCHANGED <<pendingTables, registrationQueue, event, epoch, accepted, opened>>

\* db.open() settles
OpenSettles(c, ok) ==
    /\ calls[c].job = "opening"
    /\ IF ok
       THEN /\ dbOpen' = TRUE
            /\ opened' = opened \cup calls[c].applied
            /\ calls' = [calls EXCEPT ![c].job = "fulfilled"]
       ELSE /\ calls' = [calls EXCEPT ![c].job = "rejected"]
            /\ UNCHANGED <<dbOpen, opened>>
    /\ UNCHANGED <<pendingTables, registeredTables, registrationQueue, verno, stores,
                   event, epoch, accepted>>

\* initializeAll resumes after await this.createTables(...)
InitializeAllResume(c) ==
    /\ calls[c].pc = "awaitCreateTables"
    /\ calls[c].job \in {"fulfilled", "rejected"}
    /\ IF calls[c].job = "fulfilled"
       THEN /\ pendingTables' = PendingAfterInit
            /\ calls' = [calls EXCEPT ![c].pc = "resolved"]
       ELSE /\ calls' = [calls EXCEPT ![c].pc = "rejected"]
            /\ UNCHANGED pendingTables
    /\ event' = [op |-> "initializeAll", name |-> "", outcome |-> calls'[c].pc]
    /\ UNCHANGED <<registeredTables, registrationQueue, dbOpen, verno, stores, epoch,
                   accepted, opened>>

RegInit ==
    /\ pendingTables = <<>>
    /\ registeredTables = {}
    /\ registrationQueue = 0
    /\ dbOpen = FALSE
    /\ verno = InitialVersion
    /\ stores = <<>>
    /\ calls = [c \in Calls |-> NoCall]
    /\ event = NoEvent
    /\ epoch = 0
    /\ accepted = {}
    /\ opened = {}

\* ------------------------------------------------- identity utilities
Range(seq) == {seq[i] : i \in 1..Len(seq)}

Null == [null |-> TRUE]

\* JavaScript primitives: strings, numbers, booleans, null and undefined
Str(s) == [t |-> "string", s |-> s, n |-> 0, b |-> FALSE]

Num(n) == [t |-> "number", s |-> "", n |-> n, b |-> FALSE]

Bool(b) == [t |-> "boolean", s |-> "", n |-> 0, b |-> b]

JsNull == [t |-> "null", s |-> "", n |-> 0, b |-> FALSE]

JsUndefined == [t |-> "undefined", s |-> "", n |-> 0, b |-> FALSE]

\* the decimal numerals of the numbers of the model
Decimal == <<"0", "1", "2", "3">>

\* String(v): the string a primitive is coerced to
StringOf(v) ==
    CASE v.t = "string" -> v.s
      [] v.t = "number" -> Decimal[v.n + 1]
      [] v.t = "boolean" -> (IF v.b THEN "true" ELSE "false")
      [] v.t = "null" -> "null"
      [] OTHER -> "undefined"

\* a field value: a primitive p, or a reference object { id: p, name }
Prim(p) == [kind |-> "prim", id |-> p, name |-> ""]

Ref(p, label) == [kind |-> "ref", id |-> p, name |-> label]

ExtractPrimitiveValueAsIs(value) == value

ExtractPrimitiveValue(value) ==
    IF value.kind = "ref" THEN Prim(value.id) ELSE value

GetEntityId(entity, keyFields) ==
    IF Len(keyFields) > 0
    THEN [f \in Range(keyFields) |-> ExtractPrimitiveValue(entity[f])]
    ELSE entity.id

BuildDexieKeyReversed(id, keyFields) ==
    [i \in 1..Len(keyFields) |->
        ExtractPrimitiveValue(id[keyFields[Len(keyFields) + 1 - i]])]

BuildDexieKey(id, keyFields) ==
    IF Len(keyFields) > 0
    THEN [i \in 1..Len(keyFields) |-> ExtractPrimitiveValue(id[keyFields[i]])]
    ELSE id

\* an identifier object: its properties and the order they were inserted in
IdObject(order, props) == [kind |-> "object", order |-> order, props |-> props]

\* JSON.stringify of a primitive, as the sequence of its lexical pieces
JsonOfPrimitive(p) ==
    CASE p.t = "string" -> <<"\"", p.s, "\"">>
      [] p.t = "number" -> <<Decimal[p.n + 1]>>
      [] p.t = "boolean" -> <<IF p.b THEN "true" ELSE "false">>
      [] OTHER -> <<"null">>

\* JSON.stringify of a field value: a primitive, or a reference object { id, name }
JsonOfValue(value) ==
    IF value.kind = "ref"
    THEN <<"{", "\"", "id", "\"", ":">> \o JsonOfPrimitive(value.id)
             \o <<",", "\"", "name", "\"", ":", "\"", value.name, "\"", "}">>
    ELSE JsonOfPrimitive(value.id)

\* the members of an object in the order given; a property whose value is
\* undefined is left out
RECURSIVE JsonMembers(_, _, _)
JsonMembers(order, props, first) ==
    IF order = <<>>
    THEN <<>>
    ELSE LET field == Head(order)
             value == IF field \in DOMAIN props
                      THEN props[field]
                      ELSE [kind |-> "prim", id |-> JsUndefined, name |-> ""]
         IN IF value.kind = "prim" /\ value.id.t = "undefined"
            THEN JsonMembers(Tail(order), props, first)
            ELSE (IF first THEN <<>> ELSE <<",">>)
                     \o <<"\"", field, "\"", ":">> \o JsonOfValue(value)
                     \o JsonMembers(Tail(order), props, FALSE)

JsonStringify(order, props) == <<"{">> \o JsonMembers(order, props, TRUE) \o <<"}">>

\* serializeId without the keyFields branch: JSON.stringify(id) as it is
SerializeIdRaw(id, keyFields) ==
    IF id.kind = "object"
    THEN [json |-> TRUE, text |-> JsonStringify(id.order, id.props),
          id |-> JsUndefined]
    ELSE [json |-> FALSE, text |-> <<>>, id |-> id.id]

\* serializeId: an object identifier becomes the JSON text of its key fields, in
\* keyFields order and unwrapped; a primitive identifier is returned as it is
SerializeId(id, keyFields) ==
    IF id.kind = "object"
    THEN IF Len(keyFields) > 0
         THEN LET normalized ==
                      [f \in Range(keyFields) |->
                          ExtractPrimitiveValue(
                              IF f \in DOMAIN id.props
                              THEN id.props[f]
                              ELSE [kind |-> "prim", id |-> JsUndefined, name |-> ""])]
              IN [json |-> TRUE, text |-> JsonStringify(keyFields, normalized),
                  id |-> JsUndefined]
         ELSE [json |-> TRUE, text |-> JsonStringify(id.order, id.props),
               id |-> JsUndefined]
    ELSE [json |-> FALSE, text |-> <<>>, id |-> id.id]

\* URLBuilder.buildIdUrl: baseUrl followed by the path segments
BuildIdUrl(baseUrl, id, keyFields) ==
    IF Len(keyFields) > 0
    THEN <<baseUrl>> \o [i \in 1..Len(keyFields) |->
                            StringOf(ExtractPrimitiveValue(id[keyFields[i]]).id)]
    ELSE <<baseUrl, StringOf(id.id)>>

NormalizeDeep(entity, keyFields) ==
    [f \in DOMAIN entity |->
        IF entity[f].kind = "ref" THEN Prim(entity[f].id) ELSE entity[f]]

\* the strings of the model that percent-encoding changes: a space becomes + in a
\* form-encoded search parameter and %20 under encodeURIComponent
FormEncode(s) == IF s = "a b" THEN "a+b" ELSE s

EncodeURIComponent(s) == IF s = "a b" THEN "a%20b" ELSE s

\* the pieces s1, sep, s2, sep, ... of the sequences of pieces in parts
RECURSIVE Join(_, _)
Join(parts, sep) ==
    IF parts = <<>>
    THEN <<>>
    ELSE IF Len(parts) = 1
         THEN parts[1]
         ELSE parts[1] \o <<sep>> \o Join(Tail(parts), sep)

\* a path as new URL(path, "http://_") parses it: pathname, the search
\* parameters it already has (as key = value pieces) and hash
Path(pathname, search, hash) ==
    [pathname |-> pathname, search |-> search, hash |-> hash]

\* url.search after the scalar parameters were appended to url.searchParams
UrlSearch(path, entries) ==
    LET scalars == SelectSeq(entries, LAMBDA e : e.value.kind = "scalar")
        appended == [i \in 1..Len(scalars) |->
                        <<FormEncode(scalars[i].key), "=",
                          FormEncode(StringOf(scalars[i].value.v))>>]
        all == path.search \o appended
    IN IF all = <<>> THEN <<>> ELSE <<"?">> \o Join(all, "&")

\* arrayParms: &key=v1,v2 for every array-valued parameter
ArrayParms(entries) ==
    LET arrays == SelectSeq(entries, LAMBDA e : e.value.kind = "array")
        piece(e) == <<"&", e.key, "=">>
                        \o Join([i \in 1..Len(e.value.vs) |->
                                    <<EncodeURIComponent(StringOf(e.value.vs[i]))>>],
                                ",")
        RECURSIVE All(_)
        All(es) == IF es = <<>> THEN <<>> ELSE piece(Head(es)) \o All(Tail(es))
    IN All(arrays)

\* URLBuilder.buildUrl: params are the entries of the object in insertion order
BuildUrl(path, params) ==
    LET entries == IF params.given THEN params.entries ELSE <<>>
    IN <<path.pathname>> \o UrlSearch(path, entries) \o ArrayParms(entries)
           \o (IF path.hash = "" THEN <<>> ELSE <<path.hash>>)

\* EntityNormalizer.normalize
NormalizeAsIs(entity, keyFields) == entity

Normalize(entity, keyFields) ==
    IF Len(keyFields) = 0
    THEN entity
    ELSE [f \in DOMAIN entity |->
             IF f \in Range(keyFields) /\ entity[f].kind = "ref"
             THEN Prim(entity[f].id)
             ELSE entity[f]]

NormalizeManyAsIs(entities, keyFields) == entities

NormalizeMany(entities, keyFields) ==
    [i \in 1..Len(entities) |-> Normalize(entities[i], keyFields)]

\* ------------------------------------------------------ filter matcher
NoSpecialParams == {}

SPECIAL_PARAMS == {"sort", "fields"}

\* a list parameter value: undefined, a scalar primitive, or an array of primitives
Undefined == [kind |-> "undefined"]

Scalar(v) == [kind |-> "scalar", v |-> v]

Array(vs) == [kind |-> "array", vs |-> vs]

NoParams == [given |-> FALSE, map |-> <<>>]

Params(map) == [given |-> TRUE, map |-> map]

\* entity[key]: a property the entity does not have reads as undefined
Field(entity, key) ==
    IF key \in DOMAIN entity THEN entity[key] ELSE Prim(JsUndefined)

MatchesParam(entity, key, expectedValue) ==
    IF expectedValue.kind = "undefined" \/ key \in SPECIAL_PARAMS
    THEN TRUE
    ELSE LET actualValue == Field(entity, key) IN
         IF expectedValue.kind = "array"
         THEN \* expectedValue.includes(actualValue): strict equality
              actualValue.kind = "prim" /\ actualValue.id \in Range(expectedValue.vs)
         ELSE IF actualValue.kind = "ref"
              THEN StringOf(actualValue.id) = StringOf(expectedValue.v)
              ELSE StringOf(actualValue.id) = StringOf(expectedValue.v)

MatchesFilter(entity, map) ==
    \A key \in DOMAIN map : MatchesParam(entity, key, map[key])

FilterEntitiesSkipped(entities, params) == entities

FilterEntities(entities, params) ==
    IF ~params.given \/ DOMAIN params.map = {}
    THEN entities
    ELSE LET clean == {k \in DOMAIN params.map : params.map[k].kind # "undefined"}
             cleanParams == [k \in clean |-> params.map[k]]
         IN IF clean = {}
            THEN entities
            ELSE SelectSeq(entities, LAMBDA e : MatchesFilter(e, cleanParams))

\* matchesFilter on a params object given as its entries in insertion order, with
\* the way the call ends: "true", "false", or "TypeError". typeof null is
\* "object", so a null field with a scalar parameter reaches actualObj.id
ParamThrows(entity, key, expectedValue) ==
    /\ expectedValue.kind = "scalar"
    /\ key \notin SPECIAL_PARAMS
    /\ Field(entity, key) = Prim(JsNull)

RECURSIVE MatchesFilterOutcome(_, _)
MatchesFilterOutcome(entity, entries) ==
    IF Len(entries) = 0
    THEN "true"
    ELSE LET key == Head(entries).key
             expectedValue == Head(entries).value
         IN IF ParamThrows(entity, key, expectedValue)
            THEN "TypeError"
            ELSE IF ~MatchesParam(entity, key, expectedValue)
                 THEN "false"
                 ELSE MatchesFilterOutcome(entity, Tail(entries))

\* filterEntities on the same form of params: entities.filter stops at the first
\* call of matchesFilter that throws
RECURSIVE FilterEntitiesOutcome(_, _)
FilterEntitiesOutcome(entities, entries) ==
    LET cleanParams == SelectSeq(entries, LAMBDA e : e.value.kind # "undefined")
    IN IF Len(entries) = 0 \/ Len(cleanParams) = 0 \/ Len(entities) = 0
       THEN "returned"
       ELSE IF MatchesFilterOutcome(Head(entities), cleanParams) = "TypeError"
            THEN "TypeError"
            ELSE FilterEntitiesOutcome(Tail(entities), cleanParams)

\* list up to its call of filterEntities, which no try or catch surrounds: a throw
\* rejects the promise list returned before any request is made
ListFilterOutcome(allCached, entries) ==
    IF FilterEntitiesOutcome(allCached, entries) = "TypeError"
    THEN "rejected"
    ELSE "pending"

\* ------------------------------------- the resource the operations act on
Res == AllNames[1]

KeyFields == KeyFieldsOf(Res)

BaseUrl == "/tags"

Ops == 1..MaxOps

\* the operations that run in the read-path specification
ReadOps == {o \in Ops : o <= MaxReadOps}

IdOrder == << [spaceId |-> Prim(Str("s1")), tagName |-> Prim(Str("t1"))],
              [spaceId |-> Prim(Str("s1")), tagName |-> Prim(Str("t2"))] >>

Ids == Range(IdOrder)

ListParamChoices == {NoParams, Params([tagName |-> Scalar(Str("t1"))]),
                     Params([tagName |-> Scalar(Str("t2"))])}

\* the entity the API returns for id at version v: spaceId is a reference object
ServerEntity(id, v) ==
    [spaceId |-> Ref(id.spaceId.id, "Work"), tagName |-> id.tagName, ver |-> v]

ServerList(params) ==
    LET all == SelectSeq(IdOrder, LAMBDA i : server[i] > 0)
        ents == [k \in 1..Len(all) |-> ServerEntity(all[k], server[all[k]])]
    IN FilterEntities(ents, params)

\* Dexie: the primary key of a record is read from its key fields, which must hold
\* primitives; a record whose key is not valid is refused
ValidKey(entity) == \A f \in Range(KeyFields) : entity[f].kind = "prim"

KeyOf(entity) == [f \in Range(KeyFields) |-> entity[f]]

TablePutSkipped(tbl, entity) == tbl

TablePut(tbl, entity) == [tbl EXCEPT ![KeyOf(entity)] = entity]

TableReplacedBy(tbl, entities) ==
    [i \in Ids |->
        LET ks == {k \in 1..Len(entities) : KeyOf(entities[k]) = i}
        IN IF ks = {} THEN Null
           ELSE entities[CHOOSE k \in ks : \A j \in ks : j <= k]]

RECURSIVE TableBulkPut(_, _)
TableBulkPut(tbl, entities) ==
    IF entities = <<>> THEN tbl
    ELSE TableBulkPut(TablePut(tbl, Head(entities)), Tail(entities))

\* table.get(id) with an object argument selects by equality on the given fields
TableGet(tbl, id) ==
    LET hits == {i \in Ids : tbl[i] # Null /\ \A f \in DOMAIN id : tbl[i][f] = id[f]}
    IN IF hits = {} THEN Null ELSE tbl[CHOOSE i \in hits : TRUE]

TableToArray(tbl) ==
    LET present == SelectSeq(IdOrder, LAMBDA i : tbl[i] # Null)
    IN [k \in 1..Len(present) |-> tbl[present[k]]]

TableDeleteSkipped(tbl, key) == tbl

TableDelete(tbl, key) ==
    [i \in Ids |-> IF BuildDexieKey(i, KeyFields) = key THEN Null ELSE tbl[i]]

\* ------------------------------------------------- operations factory
NoPut == [called |-> FALSE, records |-> <<>>]

PutCall(records) == [called |-> TRUE, records |-> records]

\* T | null held by an operation: <<>> is null, <<e>> the entity e; lists are
\* sequences of entities
None == <<>>

Some(e) == <<e>>

Maybe(e) == IF e = Null THEN None ELSE Some(e)

NoOp == [kind |-> "none", arg |-> Null, pc |-> "idle", absentAtCall |-> FALSE,
         cached |-> None, net |-> "none", url |-> <<>>, data |-> None,
         bg |-> "none", put |-> NoPut, value |-> None, result |-> None,
         err |-> "none", logged |-> 0, method |-> "", del |-> <<>>,
         msgs |-> <<>>]

Reads == {"getById", "list"}

Writes == {"create", "update", "remove"}

\* resource-factory's lazy getTable(): throws unless the registry has the table
TableAbsent == GetTable(Res) = "absent"

\* `cached ?? await networkPromise` and `cached.length > 0 ? cached : await ...`
ServedFromCacheNever(kind, cached) == FALSE

ServedFromCache(kind, cached) ==
    IF kind = "getById" THEN cached # None ELSE Len(cached) > 0

\* the HTTP method of each operation's request (apiRequest defaults to GET)
MethodOf(kind) ==
    CASE kind = "create" -> "POST"
      [] kind = "update" -> "PATCH"
      [] kind = "remove" -> "DELETE"
      [] OTHER -> "GET"

\* console.error(`[Query] Failed to fetch ${name} by ID: `, err) and
\* console.error(`[Query] Failed to fetch ${name} list: `, err)
FetchFailed(kind) ==
    [text |-> "Failed to fetch", name |-> Res,
     what |-> IF kind = "getById" THEN "by ID" ELSE "list"]

\* getById's catch: err instanceof ApiError && err.status === 404; list has no
\* such test
IsNotFoundNever(kind, net) == FALSE

IsNotFound(kind, net) == kind = "getById" /\ net = "notFound"

\* getById and list send their request once the cache read has been observed
CanIssueBeforeRead(o) == ops[o].pc \in {"reading", "gotCache"}

CanIssue(o) == ops[o].pc = "gotCache"

\* the operation is invoked: reads fetch the table first, writes send their request
CallRead(o, kind, arg) ==
    /\ ops[o].pc = "idle"
    /\ kind \in Reads
    /\ IF TableAbsent
       THEN ops' = [ops EXCEPT ![o] = [NoOp EXCEPT !.kind = kind, !.arg = arg,
                                          !.absentAtCall = TRUE,
                                          !.pc = "rejected",
                                          !.err = "notInitialized"]]
       ELSE ops' = [ops EXCEPT ![o] = [NoOp EXCEPT !.kind = kind, !.arg = arg,
                                          !.pc = "reading"]]
    /\ UNCHANGED <<table, server>>

CallWrite(o, kind, arg) ==
    /\ ops[o].pc = "idle"
    /\ kind \in Writes
    /\ ops' = [ops EXCEPT ![o] = [NoOp EXCEPT !.kind = kind, !.arg = arg,
                                     !.absentAtCall = TableAbsent,
                                     !.pc = "awaitNet",
                                     !.net = "sent",
                                     !.method = MethodOf(kind),
                                     !.url = IF kind = "create" THEN <<BaseUrl>>
                                             ELSE BuildIdUrl(BaseUrl, arg, KeyFields)]]
    /\ UNCHANGED <<table, server>>

\* await tbl.get(id) / await tbl.toArray() delivers the local records
CacheRead(o) ==
    /\ ops[o].pc = "reading"
    /\ ops' = [ops EXCEPT ![o].pc = "gotCache",
                          ![o].cached =
                              IF ops[o].kind = "getById"
                              THEN Maybe(TableGet(table, ops[o].arg))
                              ELSE FilterEntities(TableToArray(table), ops[o].arg)]
    /\ UNCHANGED <<table, server>>

\* the rest of getById / list: send the request, then return the cached value or
\* wait for the network promise
IssueAndReturn(o) ==
    /\ CanIssue(o)
    /\ ops' = [ops EXCEPT ![o].net = "sent",
                          ![o].method = MethodOf(ops[o].kind),
                          ![o].bg = "pending",
                          ![o].url = IF ops[o].kind = "getById"
                                     THEN BuildIdUrl(BaseUrl, ops[o].arg, KeyFields)
                                     ELSE <<BaseUrl>>,
                          ![o].pc = IF ServedFromCache(ops[o].kind, ops[o].cached)
                                    THEN "resolved" ELSE "awaitNet",
                          ![o].result = IF ServedFromCache(ops[o].kind, ops[o].cached)
                                        THEN ops[o].cached ELSE None]
    /\ UNCHANGED <<table, server>>

\* the API handles the request: apiRequest will fulfil with { data } or throw
ServerHandle(o, fail) ==
    /\ ops[o].net = "sent"
    /\ LET kind == ops[o].kind
           id == ops[o].arg
       IN
       IF fail
       THEN /\ ops' = [ops EXCEPT ![o].net = "error"]
            /\ UNCHANGED server
       ELSE CASE kind = "list" ->
                 /\ ops' = [ops EXCEPT ![o].net = "ok",
                                       ![o].data = ServerList(ops[o].arg)]
                 /\ UNCHANGED server
              [] kind = "getById" ->
                 /\ ops' = [ops EXCEPT ![o].net = IF server[id] = 0 THEN "notFound"
                                                  ELSE "ok",
                                       ![o].data = IF server[id] = 0 THEN None
                                                   ELSE Some(ServerEntity(id, server[id]))]
                 /\ UNCHANGED server
              [] kind = "create" ->
                 IF server[id] # 0
                 THEN /\ ops' = [ops EXCEPT ![o].net = "error"]
                      /\ UNCHANGED server
                 ELSE /\ server' = [server EXCEPT ![id] = 1]
                      /\ ops' = [ops EXCEPT ![o].net = "ok",
                                            ![o].data = Some(ServerEntity(id, 1))]
              [] kind = "update" ->
                 IF server[id] = 0
                 THEN /\ ops' = [ops EXCEPT ![o].net = "notFound"]
                      /\ UNCHANGED server
                 ELSE /\ server[id] < MaxVer
                      /\ server' = [server EXCEPT ![id] = server[id] + 1]
                      /\ ops' = [ops EXCEPT ![o].net = "ok",
                                            ![o].data = Some(ServerEntity(id, server[id] + 1))]
              [] kind = "remove" ->
                 IF server[id] = 0
                 THEN /\ ops' = [ops EXCEPT ![o].net = "notFound"]
                      /\ UNCHANGED server
                 ELSE /\ server' = [server EXCEPT ![id] = 0]
                      /\ ops' = [ops EXCEPT ![o].net = "ok"]
    /\ UNCHANGED table

\* the .then / .catch handlers chained on apiRequest in getById and list
NetworkThen(o) ==
    /\ ops[o].kind \in Reads
    /\ ops[o].bg = "pending"
    /\ ops[o].net \in {"ok", "notFound", "error"}
    /\ LET kind == ops[o].kind
           norm == NormalizeMany(ops[o].data, KeyFields)
           empty == IF kind = "getById" THEN None ELSE <<>>
       IN
       IF ops[o].net = "ok"
       THEN IF \A i \in 1..Len(norm) : ValidKey(norm[i])
            THEN /\ table' = TableBulkPut(table, norm)
                 /\ ops' = [ops EXCEPT ![o].bg = "done",
                                       ![o].put = PutCall(norm),
                                       ![o].value = ops[o].data]
            ELSE /\ ops' = [ops EXCEPT ![o].bg = "done",
                                       ![o].put = PutCall(norm),
                                       ![o].value = empty,
                                       ![o].logged = ops[o].logged + 1,
                                       ![o].msgs = Append(ops[o].msgs,
                                                          FetchFailed(kind))]
                 /\ UNCHANGED table
       ELSE /\ ops' = [ops EXCEPT ![o].bg = "done",
                                  ![o].value = empty,
                                  ![o].logged =
                                      IF IsNotFound(kind, ops[o].net)
                                      THEN ops[o].logged
                                      ELSE ops[o].logged + 1,
                                  ![o].msgs =
                                      IF IsNotFound(kind, ops[o].net)
                                      THEN ops[o].msgs
                                      ELSE Append(ops[o].msgs, FetchFailed(kind))]
            /\ UNCHANGED table
    /\ UNCHANGED server

\* `await networkPromise` resumes in a caller that was not served from cache
AwaitNetwork(o) ==
    /\ ops[o].kind \in Reads
    /\ ops[o].pc = "awaitNet"
    /\ ops[o].bg = "done"
    /\ ops' = [ops EXCEPT ![o].pc = "resolved", ![o].result = ops[o].value]
    /\ UNCHANGED <<table, server>>

\* `await apiRequest(...)` throws in create / update / remove
NetFailedUnlessRemove(kind, net) == kind # "remove" /\ net # "ok"

NetFailed(kind, net) == net # "ok"

\* what create / update / remove return
WriteResultStored(o) ==
    IF ops[o].kind = "remove" THEN None ELSE ops[o].put.records

WriteResult(o) ==
    IF ops[o].kind = "remove" THEN None ELSE ops[o].data

\* create / update / remove resume after `await apiRequest(...)`; storeOk tells
\* whether the store carries out the put / delete or rejects it
WriteResume(o, storeOk) ==
    /\ ops[o].kind \in Writes
    /\ ops[o].pc = "awaitNet"
    /\ ops[o].net \in {"ok", "notFound", "error"}
    /\ IF NetFailed(ops[o].kind, ops[o].net)
       THEN /\ ops' = [ops EXCEPT ![o].pc = "rejected", ![o].err = "network"]
            /\ UNCHANGED table
       ELSE IF TableAbsent
            THEN /\ ops' = [ops EXCEPT ![o].pc = "rejected",
                                       ![o].err = "notInitialized"]
                 /\ UNCHANGED table
            ELSE IF ops[o].kind = "remove"
                 THEN IF ~storeOk
                      THEN /\ ops' = [ops EXCEPT ![o].pc = "rejected",
                                                 ![o].del =
                                                     <<BuildDexieKey(ops[o].arg, KeyFields)>>,
                                                 ![o].err = "storage"]
                           /\ UNCHANGED table
                      ELSE
                      /\ table' = TableDelete(table,
                                      BuildDexieKey(ops[o].arg, KeyFields))
                      /\ ops' = [ops EXCEPT ![o].pc = "stored",
                                            ![o].del =
                                                <<BuildDexieKey(ops[o].arg, KeyFields)>>]
                 ELSE LET norm == Normalize(ops[o].data[1], KeyFields) IN
                      IF ValidKey(norm) /\ storeOk
                      THEN /\ table' = TablePut(table, norm)
                           /\ ops' = [ops EXCEPT ![o].pc = "stored",
                                                 ![o].put = PutCall(<<norm>>)]
                      ELSE /\ ops' = [ops EXCEPT ![o].pc = "rejected",
                                                 ![o].put = PutCall(<<norm>>),
                                                 ![o].err = "storage"]
                           /\ UNCHANGED table
    /\ UNCHANGED server

\* the write returns once its table.put / table.delete has completed
WriteReturn(o) ==
    /\ ops[o].kind \in Writes
    /\ ops[o].pc = "stored"
    /\ ops' = [ops EXCEPT ![o].pc = "resolved",
                          ![o].result = WriteResult(o)]
    /\ UNCHANGED <<table, server>>

\* ------------------------------------------------------ useDebouncedUpdate
\* debouncedUpdate calls the hook receives; each call has its own timer and at most
\* one API sync, so a call, its timer and its sync share one index
MaxUpdates == 2

Updates == 1..MaxUpdates

HookIds == {"a", "b"}

\* the (id, data) pairs of successive debouncedUpdate calls; data sets one field.
\* The calls concern different ids or different fields of one id
UpdateSequences ==
    << << [id |-> "a", field |-> "title"], [id |-> "b", field |-> "title"],
          [id |-> "a", field |-> "body"], [id |-> "b", field |-> "body"] >>,
       << [id |-> "a", field |-> "title"], [id |-> "a", field |-> "body"],
          [id |-> "b", field |-> "title"], [id |-> "b", field |-> "body"] >> >>

NoUpdate == [pc |-> "idle", id |-> "", field |-> "", merged |-> {}]

NoSync == [state |-> "none", by |-> "none"]

NoFlush == [pc |-> "idle", on |-> 0]

\* pendingUpdateRef.current and apiCallRef.current are 0 for null
NoHook ==
    [sequence |-> 1,
     updates |-> [u \in Updates |-> NoUpdate],
     pendingUpdateRef |-> 0,
     timers |-> {},
     syncs |-> [u \in Updates |-> NoSync],
     apiCallRef |-> 0,
     flush |-> NoFlush,
     saved |-> [i \in HookIds |-> {}],
     cancelled |-> {},
     cancelCalled |-> FALSE,
     mounted |-> TRUE]

CancelWithoutClear(h) ==
    IF h.pendingUpdateRef # 0
    THEN [h EXCEPT !.cancelled = @ \cup {h.pendingUpdateRef},
                   !.pendingUpdateRef = 0]
    ELSE h

\* cancel(): clearTimeout of the pending update's timer, then the ref is nulled
Cancel(h) ==
    IF h.pendingUpdateRef # 0
    THEN [h EXCEPT !.timers = @ \ {h.pendingUpdateRef},
                   !.cancelled = @ \cup {h.pendingUpdateRef},
                   !.pendingUpdateRef = 0]
    ELSE h

\* syncToAPI up to its await: resource.update is called and apiCallRef set
SyncToAPI(h, u, by) ==
    [h EXCEPT !.syncs[u] = [state |-> "inflight", by |-> by],
              !.apiCallRef = u]

HookIdle(u) ==
    /\ hook.updates[u].pc = "idle"
    /\ \A v \in Updates : v < u => hook.updates[v].pc # "idle"

\* debouncedUpdate(id, data) is called: saveToIndexedDB starts with table.get
DebouncedUpdate(u) ==
    /\ hook.mounted
    /\ HookIdle(u)
    /\ hook' = [hook EXCEPT !.updates[u] =
                    [pc |-> "get",
                     id |-> UpdateSequences[hook.sequence][u].id,
                     field |-> UpdateSequences[hook.sequence][u].field,
                     merged |-> {}]]

\* table.get settles: the update is merged into what was read, table.put starts
SaveGetSettles(u) ==
    /\ hook.updates[u].pc = "get"
    /\ hook' = [hook EXCEPT !.updates[u].pc = "put",
                            !.updates[u].merged =
                                hook.saved[hook.updates[u].id]
                                    \cup {hook.updates[u].field}]

\* table.put settles (a failure is caught and logged); debouncedUpdate resumes:
\* cancel(), setTimeout, pendingUpdateRef.current = { id, data, timerId }
SavePutSettles(u, ok) ==
    /\ hook.updates[u].pc = "put"
    /\ LET h1 == [hook EXCEPT !.updates[u].pc = "scheduled",
                              !.saved[hook.updates[u].id] =
                                  IF ok THEN hook.updates[u].merged ELSE @]
           h2 == Cancel(h1)
       IN hook' = [h2 EXCEPT !.timers = @ \cup {u},
                             !.pendingUpdateRef = u]

\* the timer's callback: syncToAPI(id, data); pendingUpdateRef.current = null
TimerFires(u) ==
    /\ u \in hook.timers
    /\ LET h1 == [hook EXCEPT !.timers = @ \ {u}]
           h2 == SyncToAPI(h1, u, "timer")
       IN hook' = [h2 EXCEPT !.pendingUpdateRef = 0]

\* the promise of resource.update settles: syncToAPI nulls apiCallRef on both paths;
\* a flush awaiting syncToAPI then finds the ref null and returns, a flush awaiting
\* the promise itself resolves or rejects with it
SyncSettles(u, ok) ==
    /\ hook.syncs[u].state = "inflight"
    /\ hook' = [hook EXCEPT
           !.syncs[u].state = "settled",
           !.apiCallRef = 0,
           !.flush.pc =
               IF hook.flush.on = u /\ hook.flush.pc = "awaitSync"
               THEN "resolved"
               ELSE IF hook.flush.on = u /\ hook.flush.pc = "awaitApi"
                    THEN IF ok THEN "resolved" ELSE "rejected"
                    ELSE @]

\* cancel() called by the component
CallCancel ==
    hook' = [Cancel(hook) EXCEPT !.cancelCalled = TRUE]

\* flush() is called
CallFlush ==
    /\ hook.flush.pc = "idle"
    /\ IF hook.pendingUpdateRef # 0
       THEN LET u == hook.pendingUpdateRef
                h1 == SyncToAPI(Cancel(hook), u, "flush")
            IN hook' = [h1 EXCEPT !.flush = [pc |-> "awaitSync", on |-> u]]
       ELSE IF hook.apiCallRef # 0
            THEN hook' = [hook EXCEPT !.flush = [pc |-> "awaitApi",
                                                 on |-> hook.apiCallRef]]
            ELSE hook' = [hook EXCEPT !.flush.pc = "resolved"]

\* the effect's cleanup on unmount
Unmount ==
    /\ hook.mounted
    /\ LET h1 == [hook EXCEPT !.mounted = FALSE]
       IN IF hook.pendingUpdateRef # 0
          THEN hook' = SyncToAPI(Cancel(h1), hook.pendingUpdateRef, "unmount")
          ELSE hook' = h1

Init ==
    /\ RegInit
    /\ table = [i \in Ids |-> Null]
    /\ server = [i \in Ids |-> 0]
    /\ ops = [o \in Ops |-> NoOp]
    /\ qcache = {}
    /\ hook = NoHook
    /\ pure = NoPure

Next ==
    \/ \E name \in Names : RegisterTable(name, KeyFieldsOf(name)) /\ UNCHANGED <<opVars, pure, qcache, hook>>
    \/ \E c \in Calls : InitializeAll(c) /\ UNCHANGED <<opVars, pure, qcache, hook>>
    \/ \E c \in Calls : QueuedJob(c) /\ UNCHANGED <<opVars, pure, qcache, hook>>
    \/ \E c \in Calls, ok \in BOOLEAN : OpenSettles(c, ok) /\ UNCHANGED <<opVars, pure, qcache, hook>>
    \/ \E c \in Calls : InitializeAllResume(c) /\ UNCHANGED <<opVars, pure, qcache, hook>>

\* the registry alone: registrations and overlapping initializeAll calls
Spec == Init /\ [][Next]_vars

\* The operations of one resource. createResource has registered its table; the
\* Dexie database persists, so the table may hold a record of an earlier session.
StaleStore == [i \in Ids |-> IF i = IdOrder[1]
                             THEN Normalize(ServerEntity(i, 1), KeyFields)
                             ELSE Null]

StoredChoices == {[i \in Ids |-> Null], StaleStore}

ServerChoices == {[i \in Ids |-> 0],
                  [i \in Ids |-> IF i = IdOrder[1] THEN MaxVer ELSE 0],
                  [i \in Ids |-> 1]}

OpsInit ==
    /\ pendingTables = [n \in {Res} |-> KeyFields]
    /\ registeredTables = {}
    /\ registrationQueue = 0
    /\ dbOpen = FALSE
    /\ verno = InitialVersion
    /\ stores = <<>>
    /\ calls = [c \in Calls |-> NoCall]
    /\ event = [op |-> "registerTable", name |-> Res, outcome |-> "ok"]
    /\ epoch = 1
    /\ accepted = {Res}
    /\ opened = {}
    /\ table \in StoredChoices
    /\ server \in ServerChoices
    /\ ops = [o \in Ops |-> NoOp]
    /\ qcache = {}
    /\ hook = NoHook
    /\ pure = NoPure

FirstIdle(o) == \A q \in Ops : q < o => ops[q].pc # "idle"

OpsNext ==
    \/ InitializeAll(1) /\ UNCHANGED <<opVars, pure, qcache, hook>>
    \/ QueuedJob(1) /\ UNCHANGED <<opVars, pure, qcache, hook>>
    \/ \E ok \in BOOLEAN : OpenSettles(1, ok) /\ UNCHANGED <<opVars, pure, qcache, hook>>
    \/ InitializeAllResume(1) /\ UNCHANGED <<opVars, pure, qcache, hook>>
    \/ \E o \in Ops, id \in Ids :
           FirstIdle(o) /\ CallRead(o, "getById", id) /\ UNCHANGED <<regVars, pure, qcache, hook>>
    \/ \E o \in Ops, params \in ListParamChoices :
           FirstIdle(o) /\ CallRead(o, "list", params) /\ UNCHANGED <<regVars, pure, qcache, hook>>
    \/ \E o \in Ops, kind \in Writes, id \in Ids :
           FirstIdle(o) /\ CallWrite(o, kind, id) /\ UNCHANGED <<regVars, pure, qcache, hook>>
    \/ \E o \in Ops : CacheRead(o) /\ UNCHANGED <<regVars, pure, qcache, hook>>
    \/ \E o \in Ops : IssueAndReturn(o) /\ UNCHANGED <<regVars, pure, qcache, hook>>
    \/ \E o \in Ops, fail \in BOOLEAN : ServerHandle(o, fail) /\ UNCHANGED <<regVars, pure, qcache, hook>>
    \/ \E o \in Ops : NetworkThen(o) /\ UNCHANGED <<regVars, pure, qcache, hook>>
    \/ \E o \in Ops : AwaitNetwork(o) /\ UNCHANGED <<regVars, pure, qcache, hook>>
    \/ \E o \in Ops, storeOk \in BOOLEAN : WriteResume(o, storeOk) /\ UNCHANGED <<regVars, pure, qcache, hook>>
    \/ \E o \in Ops : WriteReturn(o) /\ UNCHANGED <<regVars, pure, qcache, hook>>

OpsSpec == OpsInit /\ [][OpsNext]_vars

\* The read path alone, on a resource whose table initialize() has created. Every
\* step of the client runs once it can (promise reactions are always scheduled);
\* nothing makes the API answer.
FullStore == [i \in Ids |-> Normalize(ServerEntity(i, 1), KeyFields)]

\* <<table, server>>: a record the API has moved on from; a record the API still
\* has; an empty table; a record the API no longer has; every record of the API
ReadChoices == << <<StaleStore, [i \in Ids |-> IF i = IdOrder[1] THEN MaxVer ELSE 0]>>,
                 <<StaleStore, [i \in Ids |-> 1]>>,
                 <<[i \in Ids |-> Null], [i \in Ids |-> 1]>>,
                 <<StaleStore, [i \in Ids |-> 0]>>,
                 <<FullStore, [i \in Ids |-> 1]>> >>

ResourceReady ==
    /\ pendingTables = <<>>
    /\ registeredTables = {Res}
    /\ registrationQueue = 1
    /\ dbOpen = TRUE
    /\ verno = InitialVersion + 1
    /\ stores = [n \in {Res} |-> KeySpec(KeyFields)]
    /\ calls = [c \in Calls |->
                   IF c = 1
                   THEN [NoCall EXCEPT !.pc = "resolved",
                                       !.tables = [n \in {Res} |-> KeyFields],
                                       !.job = "fulfilled",
                                       !.applied = {Res},
                                       !.vFrom = InitialVersion,
                                       !.vTo = InitialVersion + 1,
                                       !.epoch = 1,
                                       !.accepted = {Res}]
                   ELSE NoCall]
    /\ event = [op |-> "initializeAll", name |-> "", outcome |-> "resolved"]
    /\ epoch = 1
    /\ accepted = {Res}
    /\ opened = {Res}
    /\ \E i \in 1..Len(ReadChoices) :
           table = ReadChoices[i][1] /\ server = ReadChoices[i][2]
    /\ ops = [o \in Ops |-> NoOp]
    /\ pure = NoPure

ReadInit ==
    /\ ResourceReady
    /\ qcache = {}
    /\ hook = NoHook

ReadNext ==
    \/ \E o \in ReadOps, id \in Ids :
           FirstIdle(o) /\ CallRead(o, "getById", id) /\ UNCHANGED <<regVars, pure, qcache, hook>>
    \/ \E o \in ReadOps, params \in ListParamChoices :
           FirstIdle(o) /\ CallRead(o, "list", params) /\ UNCHANGED <<regVars, pure, qcache, hook>>
    \/ \E o \in ReadOps : CacheRead(o) /\ UNCHANGED <<regVars, pure, qcache, hook>>
    \/ \E o \in ReadOps : IssueAndReturn(o) /\ UNCHANGED <<regVars, pure, qcache, hook>>
    \/ \E o \in ReadOps, fail \in BOOLEAN : ServerHandle(o, fail) /\ UNCHANGED <<regVars, pure, qcache, hook>>
    \/ \E o \in ReadOps : NetworkThen(o) /\ UNCHANGED <<regVars, pure, qcache, hook>>
    \/ \E o \in ReadOps : AwaitNetwork(o) /\ UNCHANGED <<regVars, pure, qcache, hook>>

\* the steps of operation o that the event loop runs by itself: continuations of
\* settled promises (at most one of them is enabled at a time)
ClientStep(o) ==
    (CacheRead(o) \/ IssueAndReturn(o) \/ NetworkThen(o) \/ AwaitNetwork(o))
        /\ UNCHANGED <<regVars, pure, qcache, hook>>

ReadFairness == \A o \in ReadOps : WF_vars(ClientStep(o))

ReadSpec == ReadInit /\ [][ReadNext]_vars /\ ReadFairness

\* The write path alone, on a resource whose table initialize() has created:
\* create, update and remove calls that may overlap.
WriteOps == {o \in Ops : o <= MaxWriteOps}

WriteNext ==
    \/ \E o \in WriteOps, kind \in Writes, id \in Ids :
           FirstIdle(o) /\ CallWrite(o, kind, id) /\ UNCHANGED <<regVars, pure, qcache, hook>>
    \/ \E o \in WriteOps, fail \in BOOLEAN :
           ServerHandle(o, fail) /\ UNCHANGED <<regVars, pure, qcache, hook>>
    \/ \E o \in WriteOps, storeOk \in BOOLEAN :
           WriteResume(o, storeOk) /\ UNCHANGED <<regVars, pure, qcache, hook>>
    \/ \E o \in WriteOps : WriteReturn(o) /\ UNCHANGED <<regVars, pure, qcache, hook>>

WriteSpec == ReadInit /\ [][WriteNext]_vars

\* Reads and writes of one resource that overlap, on a resource whose table
\* initialize() has created: a getById or list call and the create, update and
\* remove calls that are made while it is in flight or after it has returned.
\* the calls that are writes: those made after the reads were called
RaceWriteOps == Ops \ ReadOps

RaceNext ==
    \/ \E o \in ReadOps, id \in Ids :
           FirstIdle(o) /\ CallRead(o, "getById", id) /\ UNCHANGED <<regVars, pure, qcache, hook>>
    \/ \E o \in ReadOps, params \in ListParamChoices :
           FirstIdle(o) /\ CallRead(o, "list", params) /\ UNCHANGED <<regVars, pure, qcache, hook>>
    \/ \E o \in ReadOps : ClientStep(o)
    \/ \E o \in RaceWriteOps, kind \in Writes, id \in Ids :
           FirstIdle(o) /\ CallWrite(o, kind, id) /\ UNCHANGED <<regVars, pure, qcache, hook>>
    \/ \E o \in Ops, fail \in BOOLEAN :
           ServerHandle(o, fail) /\ UNCHANGED <<regVars, pure, qcache, hook>>
    \/ \E o \in RaceWriteOps, storeOk \in BOOLEAN :
           WriteResume(o, storeOk) /\ UNCHANGED <<regVars, pure, qcache, hook>>
    \/ \E o \in RaceWriteOps : WriteReturn(o) /\ UNCHANGED <<regVars, pure, qcache, hook>>

RaceSpec == ReadInit /\ [][RaceNext]_vars

DebounceInit ==
    /\ ResourceReady
    /\ qcache = {}
    /\ \E q \in 1..Len(UpdateSequences) : hook = [NoHook EXCEPT !.sequence = q]

DebounceNext ==
    \/ \E u \in Updates : DebouncedUpdate(u) /\ UNCHANGED <<regVars, opVars, pure, qcache>>
    \/ \E u \in Updates : SaveGetSettles(u) /\ UNCHANGED <<regVars, opVars, pure, qcache>>
    \/ \E u \in Updates, ok \in BOOLEAN :
           SavePutSettles(u, ok) /\ UNCHANGED <<regVars, opVars, pure, qcache>>
    \/ \E u \in Updates : TimerFires(u) /\ UNCHANGED <<regVars, opVars, pure, qcache>>
    \/ \E u \in Updates, ok \in BOOLEAN :
           SyncSettles(u, ok) /\ UNCHANGED <<regVars, opVars, pure, qcache>>
    \/ CallCancel /\ UNCHANGED <<regVars, opVars, pure, qcache>>
    \/ CallFlush /\ UNCHANGED <<regVars, opVars, pure, qcache>>
    \/ Unmount /\ UNCHANGED <<regVars, opVars, pure, qcache>>

DebounceSpec == DebounceInit /\ [][DebounceNext]_vars

\* The filter matcher alone: matchesFilter applied to one entity and one params
\* object. Fields hold strings, numbers and reference objects {id, name} (no field
\* holds null); a parameter is undefined, a scalar or an array; "sort" is one of
\* the special parameters.
FilterEntityChoices ==
    << [id |-> Prim(Str("1")), status |-> Prim(Str("active")), score |-> Prim(Num(1))],
       [id |-> Prim(Str("2")), status |-> Prim(Str("active")), score |-> Prim(Str("1"))],
       [id |-> Prim(Str("3")), status |-> Prim(Str("inactive")), score |-> Prim(Num(2))],
       [id |-> Prim(Str("4")), status |-> Prim(Str("pending")), score |-> Prim(Num(1))],
       [id |-> Prim(Str("5")), status |-> Prim(Str("inactive"))],
       [id |-> Prim(Str("6")), status |-> Prim(Str("active")),
        type |-> Ref(Str("abc"), "Note")],
       [id |-> Prim(Str("7")), status |-> Prim(Str("active")),
        type |-> Ref(Str("abc"), "Other")],
       [id |-> Prim(Str("8")), status |-> Prim(Str("active")),
        type |-> Ref(Num(1), "Work")],
       [id |-> Prim(Str("9")), status |-> Prim(Str("inactive")),
        type |-> Prim(Str("abc"))] >>

StatusParamChoices ==
    << Undefined, Scalar(Str("active")), Scalar(Str("inactive")),
       Array(<<Str("active"), Str("pending")>>) >>

ScoreParamChoices ==
    << Undefined, Scalar(Num(1)), Scalar(Str("1")), Array(<<Str("1")>>),
       Array(<<Num(1), Num(2)>>) >>

SortParamChoices == << Undefined, Scalar(Str("title")) >>

TypeParamChoices ==
    << Undefined, Scalar(Str("abc")), Scalar(Str("1")), Scalar(Num(1)),
       Array(<<Str("abc"), Str("x")>>), Array(<<Str("1")>>) >>

\* the arrays filterEntities is applied to
EntityListChoices ==
    << <<>>,
       << FilterEntityChoices[1], FilterEntityChoices[2], FilterEntityChoices[3],
          FilterEntityChoices[4], FilterEntityChoices[5] >>,
       << FilterEntityChoices[3], FilterEntityChoices[6], FilterEntityChoices[1],
          FilterEntityChoices[9], FilterEntityChoices[4] >> >>

\* the params filterEntities is given: none, {}, only undefined values, and
\* objects with defined values
FilterParamChoices ==
    << NoParams,
       Params(<<>>),
       Params([status |-> Undefined, sort |-> Undefined]),
       Params([sort |-> Scalar(Str("title"))]),
       Params([status |-> Scalar(Str("active"))]),
       Params([status |-> Scalar(Str("inactive")), score |-> Undefined]),
       Params([status |-> Array(<<Str("active"), Str("pending")>>),
               sort |-> Scalar(Str("title"))]),
       Params([status |-> Scalar(Str("active")), score |-> Scalar(Num(1))]),
       Params([type |-> Scalar(Str("abc"))]) >>

MatchesFilterInputs ==
    \E e \in 1..Len(FilterEntityChoices), st \in 1..Len(StatusParamChoices),
       sc \in 1..Len(ScoreParamChoices), so \in 1..Len(SortParamChoices),
       ty \in 1..Len(TypeParamChoices) :
        pure = [fn |-> "matchesFilter", done |-> FALSE,
                entity |-> FilterEntityChoices[e],
                params |-> [status |-> StatusParamChoices[st],
                            score |-> ScoreParamChoices[sc],
                            sort |-> SortParamChoices[so],
                            type |-> TypeParamChoices[ty]],
                out |-> FALSE]

\* input is the array as it was passed, entities the caller's array afterwards
FilterEntitiesInputs ==
    \E l \in 1..Len(EntityListChoices), p \in 1..Len(FilterParamChoices) :
        pure = [fn |-> "filterEntities", done |-> FALSE,
                input |-> EntityListChoices[l],
                entities |-> EntityListChoices[l],
                params |-> FilterParamChoices[p],
                out |-> <<>>]

\* matchesFilter on records whose "type" field is null, missing, an object without
\* an id, or a reference
NullableEntityChoices ==
    << [id |-> Prim(Str("1")), status |-> Prim(Str("active")), type |-> Prim(JsNull)],
       [id |-> Prim(Str("2")), status |-> Prim(Str("inactive")), type |-> Prim(JsNull)],
       [id |-> Prim(Str("3")), status |-> Prim(Str("active"))],
       [id |-> Prim(Str("4")), status |-> Prim(Str("active")),
        type |-> Ref(JsUndefined, "NoId")],
       [id |-> Prim(Str("5")), status |-> Prim(Str("active")),
        type |-> Ref(Str("abc"), "Note")] >>

Entry(key, value) == [key |-> key, value |-> value]

EntriesChoices ==
    << <<>>,
       << Entry("type", Undefined) >>,
       << Entry("type", Scalar(Str("abc"))) >>,
       << Entry("type", Scalar(Str("null"))) >>,
       << Entry("type", Scalar(Str("undefined"))) >>,
       << Entry("type", Array(<<Str("abc")>>)) >>,
       << Entry("status", Scalar(Str("active"))), Entry("type", Scalar(Str("abc"))) >>,
       << Entry("type", Scalar(Str("abc"))), Entry("status", Scalar(Str("active"))) >>,
       << Entry("sort", Scalar(Str("type"))), Entry("status", Scalar(Str("active"))) >> >>

CachedListChoices ==
    << <<>>,
       << NullableEntityChoices[3], NullableEntityChoices[5] >>,
       << NullableEntityChoices[5], NullableEntityChoices[1] >>,
       << NullableEntityChoices[2], NullableEntityChoices[4] >>,
       << NullableEntityChoices[4], NullableEntityChoices[3], NullableEntityChoices[5] >> >>

MatchesFilterEntriesInputs ==
    \E e \in 1..Len(NullableEntityChoices), p \in 1..Len(EntriesChoices) :
        pure = [fn |-> "matchesFilter(entries)", done |-> FALSE,
                entity |-> NullableEntityChoices[e],
                entries |-> EntriesChoices[p],
                out |-> ""]

ListFilterInputs ==
    \E l \in 1..Len(CachedListChoices), p \in 1..Len(EntriesChoices) :
        pure = [fn |-> "list(filterEntities)", done |-> FALSE,
                allCached |-> CachedListChoices[l],
                entries |-> EntriesChoices[p],
                out |-> ""]

FilterInit ==
    /\ RegInit
    /\ table = [i \in Ids |-> Null]
    /\ server = [i \in Ids |-> 0]
    /\ ops = [o \in Ops |-> NoOp]
    /\ qcache = {}
    /\ hook = NoHook
    /\ \/ MatchesFilterInputs
       \/ FilterEntitiesInputs
       \/ MatchesFilterEntriesInputs
       \/ ListFilterInputs

\* matchesFilter(entity, params) is called and returns
ApplyMatchesFilter ==
    /\ pure.fn = "matchesFilter"
    /\ ~pure.done
    /\ pure' = [pure EXCEPT !.done = TRUE,
                            !.out = MatchesFilter(pure.entity, pure.params)]
    /\ UNCHANGED <<regVars, opVars, qcache, hook>>

\* filterEntities(entities, params) is called and returns; it assigns to neither
\* the array nor its records
ApplyFilterEntities ==
    /\ pure.fn = "filterEntities"
    /\ ~pure.done
    /\ pure' = [pure EXCEPT !.done = TRUE,
                            !.out = FilterEntities(pure.entities, pure.params)]
    /\ UNCHANGED <<regVars, opVars, qcache, hook>>

\* matchesFilter(entity, params) is called and returns or throws
ApplyMatchesFilterEntries ==
    /\ pure.fn = "matchesFilter(entries)"
    /\ ~pure.done
    /\ pure' = [pure EXCEPT !.done = TRUE,
                            !.out = MatchesFilterOutcome(pure.entity, pure.entries)]
    /\ UNCHANGED <<regVars, opVars, qcache, hook>>

\* list(params) reads the table and filters what it read
ApplyListFilter ==
    /\ pure.fn = "list(filterEntities)"
    /\ ~pure.done
    /\ pure' = [pure EXCEPT !.done = TRUE,
                            !.out = ListFilterOutcome(pure.allCached, pure.entries)]
    /\ UNCHANGED <<regVars, opVars, qcache, hook>>

FilterNext ==
    \/ ApplyMatchesFilter
    \/ ApplyFilterEntities
    \/ ApplyMatchesFilterEntries
    \/ ApplyListFilter

FilterSpec == FilterInit /\ [][FilterNext]_vars

\* The identity utilities alone: serializeId, the three key orderings, normalize
\* and getEntityId applied to identifiers and entities of a composite resource.
\* A reference object holds a primitive id.
IdKeyFieldChoices == << <<"spaceId", "tagName">>, <<"tagName", "spaceId">> >>

EntityKeyFieldChoices ==
    << <<"spaceId", "tagName">>, <<"tagName", "spaceId">>, <<"spaceId">>, <<>> >>

IdObjectChoices ==
    << IdObject(<<"spaceId", "tagName">>,
                [spaceId |-> Prim(Str("s1")), tagName |-> Prim(Str("t1"))]),
       IdObject(<<"tagName", "spaceId">>,
                [spaceId |-> Prim(Str("s1")), tagName |-> Prim(Str("t1"))]),
       IdObject(<<"color", "spaceId", "tagName">>,
                [spaceId |-> Prim(Str("s1")), tagName |-> Prim(Str("t1")),
                 color |-> Prim(Str("red"))]),
       IdObject(<<"spaceId", "tagName">>,
                [spaceId |-> Ref(Str("s1"), "Space one"), tagName |-> Prim(Str("t1"))]),
       IdObject(<<"tagName", "spaceId">>,
                [spaceId |-> Ref(Str("s1"), "Renamed"),
                 tagName |-> Ref(Str("t1"), "Tag one")]),
       IdObject(<<"spaceId", "tagName">>,
                [spaceId |-> Prim(Str("s2")), tagName |-> Prim(Str("t1"))]),
       IdObject(<<"spaceId", "tagName">>,
                [spaceId |-> Prim(Num(1)), tagName |-> Prim(Str("t1"))]),
       IdObject(<<"tagName", "spaceId">>,
                [spaceId |-> Ref(Str("1"), "Space 1"), tagName |-> Prim(Str("t1"))]) >>

NormalizeEntityChoices ==
    << [id |-> Prim(Str("x1")), spaceId |-> Ref(Str("s1"), "Space one"),
        tagName |-> Prim(Str("t1")), owner |-> Ref(Str("u1"), "Ann")],
       [id |-> Prim(Str("x2")), spaceId |-> Prim(Str("s1")),
        tagName |-> Prim(Str("t1")), owner |-> Ref(Str("u1"), "Ann")],
       [id |-> Prim(Num(3)), spaceId |-> Ref(Num(1), "Space 1"),
        tagName |-> Ref(Str("t2"), "Tag two"), owner |-> Prim(Str("u1"))],
       [id |-> Prim(Str("x4")), spaceId |-> Prim(Num(1)),
        tagName |-> Prim(Str("1")), owner |-> Ref(Num(2), "Bob")],
       [id |-> Prim(Str("x5")), spaceId |-> Ref(Str("s2"), "Space two"),
        tagName |-> Ref(Str("t1"), "Tag one"), owner |-> Ref(Str("s2"), "Cy")] >>

NoOutput == [json |-> FALSE, text |-> <<>>, id |-> JsUndefined]

SerializeIdInputs ==
    \E a \in 1..Len(IdObjectChoices), b \in 1..Len(IdObjectChoices),
       k \in 1..Len(IdKeyFieldChoices) :
        pure = [fn |-> "serializeId", done |-> FALSE,
                a |-> IdObjectChoices[a], b |-> IdObjectChoices[b],
                keyFields |-> IdKeyFieldChoices[k],
                outA |-> NoOutput, outB |-> NoOutput]

KeyOrderInputs ==
    \E a \in 1..Len(IdObjectChoices), k \in 1..Len(IdKeyFieldChoices) :
        pure = [fn |-> "keyOrder", done |-> FALSE,
                id |-> IdObjectChoices[a].props,
                keyFields |-> IdKeyFieldChoices[k],
                urlDone |-> FALSE, url |-> <<>>,
                keyDone |-> FALSE, key |-> <<>>,
                specDone |-> FALSE, keySpec |-> KeySpec(<<>>)]

\* input is the entity as it was passed, entity the caller's object afterwards
NormalizeInputs ==
    \E e \in 1..Len(NormalizeEntityChoices), k \in 1..Len(EntityKeyFieldChoices) :
        pure = [fn |-> "normalize", done |-> FALSE,
                input |-> NormalizeEntityChoices[e],
                entity |-> NormalizeEntityChoices[e],
                keyFields |-> EntityKeyFieldChoices[k],
                out |-> NormalizeEntityChoices[e],
                again |-> NormalizeEntityChoices[e],
                idDone |-> FALSE,
                idOfRaw |-> Prim(JsUndefined), idOfNormalized |-> Prim(JsUndefined)]

IdInit ==
    /\ RegInit
    /\ table = [i \in Ids |-> Null]
    /\ server = [i \in Ids |-> 0]
    /\ ops = [o \in Ops |-> NoOp]
    /\ qcache = {}
    /\ hook = NoHook
    /\ \/ SerializeIdInputs
       \/ KeyOrderInputs
       \/ NormalizeInputs

\* serializeId(a, keyFields) and serializeId(b, keyFields) are called and return
ApplySerializeId ==
    /\ pure.fn = "serializeId"
    /\ ~pure.done
    /\ pure' = [pure EXCEPT !.done = TRUE,
                            !.outA = SerializeId(pure.a, pure.keyFields),
                            !.outB = SerializeId(pure.b, pure.keyFields)]
    /\ UNCHANGED <<regVars, opVars, qcache, hook>>

\* the URL builder computes the path of the identifier
ApplyBuildIdUrl ==
    /\ pure.fn = "keyOrder"
    /\ ~pure.urlDone
    /\ pure' = [pure EXCEPT !.urlDone = TRUE,
                            !.url = BuildIdUrl(BaseUrl, pure.id, pure.keyFields)]
    /\ UNCHANGED <<regVars, opVars, qcache, hook>>

\* an operation computes the store key of the identifier
ApplyBuildDexieKey ==
    /\ pure.fn = "keyOrder"
    /\ ~pure.keyDone
    /\ pure' = [pure EXCEPT !.keyDone = TRUE,
                            !.key = BuildDexieKey(pure.id, pure.keyFields)]
    /\ UNCHANGED <<regVars, opVars, qcache, hook>>

\* createTables computes the index schema of the resource's table
ApplyKeySpec ==
    /\ pure.fn = "keyOrder"
    /\ ~pure.specDone
    /\ pure' = [pure EXCEPT !.specDone = TRUE,
                            !.keySpec = KeySpec(pure.keyFields)]
    /\ UNCHANGED <<regVars, opVars, qcache, hook>>

\* normalize(entity, keyFields) is called and returns, and its result is
\* normalized once more; normalize assigns only to its own copy
ApplyNormalize ==
    /\ pure.fn = "normalize"
    /\ ~pure.done
    /\ LET normalized == Normalize(pure.entity, pure.keyFields)
       IN pure' = [pure EXCEPT !.done = TRUE,
                               !.out = normalized,
                               !.again = Normalize(normalized, pure.keyFields)]
    /\ UNCHANGED <<regVars, opVars, qcache, hook>>

\* getEntityId is applied to the raw and to the normalized entity
ApplyGetEntityId ==
    /\ pure.fn = "normalize"
    /\ pure.done
    /\ ~pure.idDone
    /\ pure' = [pure EXCEPT !.idDone = TRUE,
                            !.idOfRaw = GetEntityId(pure.entity, pure.keyFields),
                            !.idOfNormalized = GetEntityId(pure.out, pure.keyFields)]
    /\ UNCHANGED <<regVars, opVars, qcache, hook>>

IdNext ==
    \/ ApplySerializeId
    \/ ApplyBuildIdUrl
    \/ ApplyBuildDexieKey
    \/ ApplyKeySpec
    \/ ApplyNormalize
    \/ ApplyGetEntityId

IdSpec == IdInit /\ [][IdNext]_vars

\* The URL builder alone: buildUrl applied to a path and a params object.
PathChoices ==
    << Path("/tags", <<>>, ""),
       Path("/tags", << <<"x", "=", "1">> >>, ""),
       Path("/tags", <<>>, "#top") >>

LimitParamChoices ==
    << Undefined, Scalar(Num(1)), Scalar(Bool(FALSE)), Array(<<Str("a b")>>) >>

TagNameParamChoices ==
    << Undefined, Scalar(Str("t1")), Array(<<Str("t1"), Str("t2")>>),
       Scalar(Str("a b")) >>

UrlInit ==
    /\ RegInit
    /\ table = [i \in Ids |-> Null]
    /\ server = [i \in Ids |-> 0]
    /\ ops = [o \in Ops |-> NoOp]
    /\ qcache = {}
    /\ hook = NoHook
    /\ \E p \in 1..Len(PathChoices) :
           \/ pure = [fn |-> "buildUrl", done |-> FALSE, path |-> PathChoices[p],
                      params |-> [given |-> FALSE, entries |-> <<>>], out |-> <<>>]
           \/ \E l \in 1..Len(LimitParamChoices),
                 t \in 1..Len(TagNameParamChoices), limitFirst \in BOOLEAN :
                  LET limit == [key |-> "limit", value |-> LimitParamChoices[l]]
                      tagName == [key |-> "tagName",
                                  value |-> TagNameParamChoices[t]]
                  IN pure = [fn |-> "buildUrl", done |-> FALSE,
                             path |-> PathChoices[p],
                             params |-> [given |-> TRUE,
                                         entries |-> IF limitFirst
                                                     THEN <<limit, tagName>>
                                                     ELSE <<tagName, limit>>],
                             out |-> <<>>]

\* buildUrl(path, params) is called and returns
ApplyBuildUrl ==
    /\ pure.fn = "buildUrl"
    /\ ~pure.done
    /\ pure' = [pure EXCEPT !.done = TRUE,
                            !.out = BuildUrl(pure.path, pure.params)]
    /\ UNCHANGED <<regVars, opVars, qcache, hook>>

UrlNext == ApplyBuildUrl

UrlSpec == UrlInit /\ [][UrlNext]_vars

\* ---------------------------------------------- query keys and cache operations
\* A query key [name], [name, scope] or [name, scope, arg]: scope is "" and hasArg
\* is FALSE where the key has no such element; the third element is the params of
\* a list key or the serialized identifier of a detail key.
QueryKeyAll(name) ==
    [name |-> name, scope |-> "", hasArg |-> FALSE, params |-> NoParams,
     id |-> NoOutput]

QueryKeyList(name, params) ==
    IF params.given
    THEN [name |-> name, scope |-> "list", hasArg |-> TRUE, params |-> params,
          id |-> NoOutput]
    ELSE [name |-> name, scope |-> "list", hasArg |-> FALSE, params |-> NoParams,
          id |-> NoOutput]

QueryKeyDetail(name, keyFields, id) ==
    [name |-> name, scope |-> "detail", hasArg |-> TRUE, params |-> NoParams,
     id |-> SerializeId(id, keyFields)]

\* the identifier the resource's getEntityId callback extracts: with keyFields an
\* object whose properties were inserted in keyFields order
EntityId(entity) ==
    IF Len(KeyFields) > 0
    THEN IdObject(KeyFields, GetEntityId(entity, KeyFields))
    ELSE GetEntityId(entity, KeyFields)

\* queryClient.setQueryData(key, data): data is held as a sequence, <<item>> for a
\* detail entry
SetQueryData(cache, key, data) ==
    {e \in cache : e.key # key} \cup {[key |-> key, data |-> data]}

\* a query key matches a filter key when the filter key is a prefix of it
PartialMatchKey(key, prefix) ==
    /\ key.name = prefix.name
    /\ prefix.scope # "" => key.scope = prefix.scope
    /\ prefix.hasArg => key = prefix

RemoveQueriesExact(cache, prefix) == {e \in cache : e.key # prefix}

\* queryClient.removeQueries({ queryKey })
RemoveQueries(cache, prefix) == {e \in cache : ~PartialMatchKey(e.key, prefix)}

SeedDetailsSkipped(cache, items) == cache

\* the detail entries seedMany sets, item by item
RECURSIVE SeedDetails(_, _)
SeedDetails(cache, items) ==
    IF items = <<>>
    THEN cache
    ELSE SeedDetails(SetQueryData(cache,
                                  QueryKeyDetail(Res, KeyFields, EntityId(Head(items))),
                                  <<Head(items)>>),
                     Tail(items))

CacheKinds == {"seedOne", "seedMany", "clearCache"}

\* seedOne(item) up to `await tbl.put(...)`; getTable() throws when the table is
\* absent
CallSeedOne(o, item) ==
    /\ ops[o].pc = "idle"
    /\ ops' = [ops EXCEPT ![o] =
                  IF TableAbsent
                  THEN [NoOp EXCEPT !.kind = "seedOne", !.value = <<item>>,
                                    !.absentAtCall = TRUE, !.pc = "rejected",
                                    !.err = "notInitialized"]
                  ELSE [NoOp EXCEPT !.kind = "seedOne", !.value = <<item>>,
                                    !.pc = "awaitStore",
                                    !.put = PutCall(<<Normalize(item, KeyFields)>>)]]
    /\ UNCHANGED <<table, server, qcache>>

\* seedMany(items, params) up to `await tbl.bulkPut(...)`
CallSeedMany(o, items, params) ==
    /\ ops[o].pc = "idle"
    /\ ops' = [ops EXCEPT ![o] =
                  IF TableAbsent
                  THEN [NoOp EXCEPT !.kind = "seedMany", !.value = items,
                                    !.arg = params,
                                    !.absentAtCall = TRUE, !.pc = "rejected",
                                    !.err = "notInitialized"]
                  ELSE [NoOp EXCEPT !.kind = "seedMany", !.value = items,
                                    !.arg = params,
                                    !.pc = "awaitStore",
                                    !.put = PutCall(NormalizeMany(items, KeyFields))]]
    /\ UNCHANGED <<table, server, qcache>>

\* clearCache() up to `await tbl.clear()`
CallClearCache(o) ==
    /\ ops[o].pc = "idle"
    /\ ops' = [ops EXCEPT ![o] =
                  IF TableAbsent
                  THEN [NoOp EXCEPT !.kind = "clearCache",
                                    !.absentAtCall = TRUE, !.pc = "rejected",
                                    !.err = "notInitialized"]
                  ELSE [NoOp EXCEPT !.kind = "clearCache", !.pc = "awaitStore"]]
    /\ UNCHANGED <<table, server, qcache>>

\* the store request of a cache operation settles and the operation runs to its
\* end: a refused request rejects it; otherwise the records are written (or the
\* table cleared), the reactive cache is updated and the operation resolves
CacheStoreSettles(o, storeOk) ==
    /\ ops[o].kind \in CacheKinds
    /\ ops[o].pc = "awaitStore"
    /\ IF ~storeOk
       THEN /\ ops' = [ops EXCEPT ![o].pc = "rejected", ![o].err = "storage"]
            /\ UNCHANGED <<table, qcache>>
       ELSE /\ ops' = [ops EXCEPT ![o].pc = "resolved"]
            /\ IF ops[o].kind = "seedOne"
               THEN /\ table' = TablePut(table, ops[o].put.records[1])
                    /\ qcache' = SetQueryData(qcache,
                                     QueryKeyDetail(Res, KeyFields,
                                                    EntityId(ops[o].value[1])),
                                     ops[o].value)
               ELSE IF ops[o].kind = "seedMany"
               THEN /\ table' = TableBulkPut(table, ops[o].put.records)
                    /\ qcache' = SeedDetails(
                                     SetQueryData(qcache,
                                                  QueryKeyList(Res, ops[o].arg),
                                                  ops[o].value),
                                     ops[o].value)
               ELSE /\ table' = [i \in Ids |-> Null]
                    /\ qcache' = RemoveQueries(qcache, QueryKeyAll(Res))
    /\ UNCHANGED server

\* The cache operations of an initialized resource, next to a read or a write
\* of the same resource; the reactive cache holds a list of another resource.
SeedItemChoices ==
    << ServerEntity(IdOrder[1], 1), ServerEntity(IdOrder[2], MaxVer) >>

\* <<items, params>> of the seedMany calls
SeedManyChoices ==
    << << << ServerEntity(IdOrder[2], 1), ServerEntity(IdOrder[1], MaxVer) >>,
          Params([tagName |-> Scalar(Str("t1"))]) >>,
       << << ServerEntity(IdOrder[1], 1) >>, NoParams >> >>

OtherResourceEntry ==
    [key |-> QueryKeyList(AllNames[2], NoParams),
     data |-> << [spaceId |-> Prim(Str("u1")), tagName |-> Prim(Str("Ann")),
                  ver |-> 1] >>]

CacheInit ==
    /\ ResourceReady
    /\ qcache = {OtherResourceEntry}
    /\ hook = NoHook

CacheNext ==
    \/ \E o \in ReadOps, id \in Ids :
           FirstIdle(o) /\ CallRead(o, "getById", id) /\ UNCHANGED <<regVars, pure, qcache, hook>>
    \/ \E o \in ReadOps : ClientStep(o)
    \/ \E o \in ReadOps, fail \in BOOLEAN :
           ServerHandle(o, fail) /\ UNCHANGED <<regVars, pure, qcache, hook>>
    \/ \E o \in ReadOps, kind \in Writes, id \in Ids :
           FirstIdle(o) /\ CallWrite(o, kind, id) /\ UNCHANGED <<regVars, pure, qcache, hook>>
    \/ \E o \in ReadOps, storeOk \in BOOLEAN :
           WriteResume(o, storeOk) /\ UNCHANGED <<regVars, pure, qcache, hook>>
    \/ \E o \in ReadOps : WriteReturn(o) /\ UNCHANGED <<regVars, pure, qcache, hook>>
    \/ \E o \in Ops, i \in 1..Len(SeedItemChoices) :
           FirstIdle(o) /\ CallSeedOne(o, SeedItemChoices[i]) /\ UNCHANGED <<regVars, pure, hook>>
    \/ \E o \in Ops, i \in 1..Len(SeedManyChoices) :
           /\ FirstIdle(o)
           /\ CallSeedMany(o, SeedManyChoices[i][1], SeedManyChoices[i][2])
           /\ UNCHANGED <<regVars, pure, hook>>
    \/ \E o \in Ops : FirstIdle(o) /\ CallClearCache(o) /\ UNCHANGED <<regVars, pure, hook>>
    \/ \E o \in Ops, storeOk \in BOOLEAN :
           CacheStoreSettles(o, storeOk) /\ UNCHANGED <<regVars, pure, hook>>

CacheSpec == CacheInit /\ [][CacheNext]_vars

\* ---------------------------------------------------------- properties
Called(c) == calls[c].pc # "idle"

Migrated(c) == calls[c].applied # {}

StoreIO == <<dbOpen, verno, stores>>

\* C1: registerTable(name) throws whenever name is pending or registered, and then
\* performs no store I/O and leaves both sets unchanged; otherwise it adds name to
\* the pending set only.
C1_RegisterTableDuplicate ==
    [][\A name \in Names, keyFields \in KeyFieldChoices :
          RegisterTable(name, keyFields) =>
              IF name \in PendingNames \/ name \in registeredTables
              THEN /\ event'.outcome = "throw"
                   /\ UNCHANGED <<pendingTables, registeredTables, StoreIO>>
              ELSE /\ event'.outcome = "ok"
                   /\ PendingNames' = PendingNames \cup {name}
                   /\ \A n \in PendingNames : pendingTables'[n] = pendingTables[n]
                   /\ UNCHANGED <<registeredTables, StoreIO>>]_vars

C1_Witness ==
    /\ event.op = "registerTable"
    /\ event.outcome = "throw"
    /\ event.name \in PendingNames
    /\ \E n \in Names : n \in registeredTables /\ n \notin PendingNames

\* C2: schema migrations are strictly serialized: while one migration waits for its
\* db.open(), no other migration is in progress, and every call queued before it has
\* completed its own job.
C2_MigrationsSerialized ==
    \A c \in Calls :
        calls[c].job = "opening" =>
            \A d \in Calls \ {c} :
                /\ calls[d].job # "opening"
                /\ (d < c /\ calls[d].job # "none") => calls[d].job = "fulfilled"

C2_Witness ==
    \E c, d \in Calls :
        /\ calls[c].job = "opening"
        /\ calls[d].job = "queued"
        /\ NewTables(calls[d].tables) # {}

\* C3: getTable(name) returns a handle only when the migration that creates the
\* table has completed its reopen of the store.
C3_GetTableOnlyAfterReopen ==
    \A n \in Names : GetTable(n) # "absent" => n \in opened

\* C4: once an initializeAll call has resolved, every name that registerTable had
\* accepted before that call was made is in the registered set.
C4_AcceptedEndsRegistered ==
    \A c \in Calls :
        calls[c].pc = "resolved" => calls[c].accepted \subseteq registeredTables

\* C5: registration is one-way: the registered set only grows and no step puts a
\* registered name that is not pending into the pending set.
C5_RegistrationOneWay ==
    [][/\ registeredTables \subseteq registeredTables'
       /\ \A n \in registeredTables :
              n \notin PendingNames => n \notin PendingNames']_vars

C5_Witness ==
    /\ event.op = "registerTable"
    /\ event.outcome = "throw"
    /\ event.name \in registeredTables
    /\ event.name \notin PendingNames
    /\ PendingNames # {}

\* C6: among initializeAll calls with no accepted registerTable between them at most
\* one performs a migration, a call that starts with nothing pending performs none,
\* and the store version counts exactly the migrations performed.
C6_OneMigrationPerBatch ==
    /\ \A c, d \in Calls :
           (c # d /\ Called(c) /\ Called(d) /\ calls[c].epoch = calls[d].epoch)
               => ~(Migrated(c) /\ Migrated(d))
    /\ \A c \in Calls : (Called(c) /\ DOMAIN calls[c].tables = {}) => ~Migrated(c)
    /\ verno = InitialVersion + Cardinality({c \in Calls : Migrated(c)})

C6_Witness ==
    \E c, d \in Calls :
        /\ c # d
        /\ calls[c].epoch = calls[d].epoch
        /\ calls[c].pc = "resolved" /\ calls[d].pc = "resolved"
        /\ DOMAIN calls[c].tables # {} /\ DOMAIN calls[d].tables # {}
        /\ Migrated(c) /\ ~Migrated(d)

\* C7 as stated: a resolved initializeAll call that started with k >= 1 pending
\* tables has applied all k fragments itself, in a migration that raised the version
\* by exactly 1, and all k names are registered.
C7_AppliesAllK ==
    \A c \in Calls :
        (calls[c].pc = "resolved" /\ DOMAIN calls[c].tables # {}) =>
            /\ calls[c].applied = DOMAIN calls[c].tables
            /\ calls[c].vTo = calls[c].vFrom + 1
            /\ DOMAIN calls[c].tables \subseteq registeredTables

\* C7 amended: a call that started with k >= 1 pending tables performs at most one
\* migration; it applies, in one version increment of exactly 1, those of its k
\* tables that no earlier migration has applied, so each of the k fragments is
\* applied exactly once; when the call resolves the pending set is empty and all k
\* names are registered.
C7_AppliesUnregisteredOnce ==
    [][\A c \in Calls :
          (calls[c].pc = "awaitCreateTables" /\ calls'[c].pc = "resolved") =>
              LET k == DOMAIN calls[c].tables IN
              /\ k # {}
              /\ PendingNames' = {}
              /\ k \subseteq registeredTables'
              /\ calls[c].applied \subseteq k
              /\ \A n \in k :
                     /\ Cardinality({d \in Calls : n \in calls[d].applied}) = 1
                     /\ \E d \in Calls : d <= c /\ n \in calls[d].applied
              /\ IF Migrated(c)
                 THEN calls[c].vTo = calls[c].vFrom + 1
                 ELSE calls[c].vTo = calls[c].vFrom]_vars

C7_Witness ==
    \E c \in Calls :
        /\ calls[c].pc = "resolved"
        /\ Cardinality(DOMAIN calls[c].tables) >= 2
        /\ Migrated(c)
        /\ calls[c].applied # DOMAIN calls[c].tables
        /\ event.outcome = "resolved"

\* C8 as stated: an operation invoked while the resource's table is not registered
\* issues no network request and, once settled, has failed with "not initialized".
C8_NotInitializedNoRequest ==
    \A o \in Ops :
        ops[o].absentAtCall =>
            /\ ops[o].net = "none"
            /\ ops[o].pc \in {"resolved", "rejected"} =>
                   (ops[o].pc = "rejected" /\ ops[o].err = "notInitialized")

\* C9: whenever the local read of getById yields a record, getById resolves to that
\* record without waiting for the network: it never awaits the network promise, and
\* it resolves whether or not the request is ever answered.
CacheHit(o) == ops[o].kind = "getById" /\ ops[o].cached # None

ResolvedWithCached(o) ==
    IF ops[o].pc = "resolved" THEN ops[o].result = ops[o].cached ELSE FALSE

IsStoredFormOf(x, e) ==
    /\ x.spaceId = Prim(e.spaceId.id)
    /\ x.tagName = e.tagName
    /\ x.ver = e.ver

PutOfNetworkResult(o) ==
    LET data == ops[o].data IN
    IF ops[o].bg = "done" /\ ops[o].net = "ok" /\ ops[o].put.called
    THEN /\ Len(ops[o].put.records) = Len(data)
         /\ \A i \in 1..Len(data) :
                /\ IsStoredFormOf(ops[o].put.records[i], data[i])
                /\ table[GetEntityId(data[i], KeyFields)] = ops[o].put.records[i]
    ELSE FALSE

EffectiveKeys(params) ==
    {k \in DOMAIN params : params[k].kind # "undefined" /\ k \notin {"sort", "fields"}}

MatchesFilterApplied == pure.fn = "matchesFilter" /\ pure.done

\* C19: matchesFilter(entity, params) is true exactly when every parameter that is
\* defined and not one of sort, fields matches the entity; undefined-valued and
\* excluded parameters do not affect the result, and a params object with no
\* defined parameter matches every entity.
C19_MatchesFilterIsConjunction ==
    MatchesFilterApplied =>
        LET eff == EffectiveKeys(pure.params)
            effective == [k \in eff |-> pure.params[k]]
        IN /\ pure.out = (\A k \in eff : MatchesParam(pure.entity, k, pure.params[k]))
           /\ pure.out = MatchesFilter(pure.entity, effective)
           /\ (\A k \in DOMAIN pure.params : pure.params[k].kind = "undefined")
                  => pure.out

\* a defined parameter matches although sort is given and status is undefined
C19_Witness ==
    /\ MatchesFilterApplied
    /\ pure.params.sort.kind = "scalar"
    /\ pure.params.status.kind = "undefined"
    /\ pure.params.score.kind = "scalar"
    /\ pure.out

\* the parameters whose value is an array
ArrayKeys(params) == {k \in EffectiveKeys(params) : params[k].kind = "array"}

\* C20: an array-valued parameter matches exactly when the string-coerced value of
\* the entity's field equals the string form of some element of the array.
C20_ArrayMatchesAfterCoercion ==
    (MatchesFilterApplied /\ EffectiveKeys(pure.params) = ArrayKeys(pure.params)) =>
        pure.out = (\A k \in ArrayKeys(pure.params) :
                       \E i \in 1..Len(pure.params[k].vs) :
                           StringOf(Field(pure.entity, k).id)
                               = StringOf(pure.params[k].vs[i]))

\* the parameters whose entity field holds a reference object
RefKeys(entity, params) ==
    {k \in EffectiveKeys(params) : Field(entity, k).kind = "ref"}

\* C21: when the entity's field for a parameter holds a reference object, the match
\* compares the parameter (a scalar, or each element of an array) with the
\* string-coerced id of the reference, whatever the reference's other fields are.
C21_ReferenceMatchedById ==
    (MatchesFilterApplied
         /\ EffectiveKeys(pure.params) = RefKeys(pure.entity, pure.params)) =>
        pure.out = (\A k \in RefKeys(pure.entity, pure.params) :
                       LET id == StringOf(Field(pure.entity, k).id)
                           expectedValue == pure.params[k]
                       IN IF expectedValue.kind = "array"
                          THEN \E i \in 1..Len(expectedValue.vs) :
                                   StringOf(expectedValue.vs[i]) = id
                          ELSE StringOf(expectedValue.v) = id)

FilterEntitiesApplied == pure.fn = "filterEntities" /\ pure.done

\* the keys of the params filterEntities was given, none when params is undefined
GivenKeys(params) == IF params.given THEN EffectiveKeys(params.map) ELSE {}

\* C22: filterEntities(entities, params) returns the entities matchesFilter holds
\* for, in their original relative order, leaves the input array and its records
\* as they were, and returns all entities when params is undefined, empty or has
\* only undefined values.
C22_FilterEntitiesSelectsInOrder ==
    FilterEntitiesApplied =>
        LET map == pure.params.map
            defined == IF pure.params.given
                       THEN {k \in DOMAIN map : map[k].kind # "undefined"}
                       ELSE {}
        IN /\ pure.out = SelectSeq(pure.input,
                                   LAMBDA e : \A k \in GivenKeys(pure.params) :
                                                  MatchesParam(e, k, map[k]))
           /\ pure.entities = pure.input
           /\ defined = {} => pure.out = pure.input

\* a filter kept some entities and dropped others of a list that was given with
\* the dropped ones in between
C22_Witness ==
    /\ FilterEntitiesApplied
    /\ Len(pure.out) >= 2
    /\ Len(pure.out) < Len(pure.input)
    /\ pure.out[1] = pure.input[1]
    /\ pure.out[2] = pure.input[4]

\* getById(id) found no local record
CacheMiss(o) ==
    /\ ops[o].kind = "getById"
    /\ ops[o].pc \in {"gotCache", "awaitNet", "resolved"}
    /\ ops[o].cached = None

C12_NetworkFailureResolvesNull ==
    /\ [](\A o \in Ops :
              ops[o].kind = "getById" =>
                  /\ ops[o].pc # "rejected"
                  /\ (CacheMiss(o) /\ ops[o].pc = "resolved" /\ ops[o].net = "notFound")
                         => (ops[o].result = None /\ ops[o].msgs = <<>>)
                  /\ (CacheMiss(o) /\ ops[o].pc = "resolved" /\ ops[o].net = "error")
                         => /\ ops[o].result = None
                            /\ ops[o].msgs = << [text |-> "Failed to fetch",
                                                 name |-> "tags", what |-> "by ID"] >>
                  /\ (CacheHit(o) /\ ops[o].pc = "resolved")
                         => ops[o].result = ops[o].cached)
    /\ \A o \in Ops :
           (ops[o].kind = "getById" /\ ops[o].pc = "awaitNet"
                /\ ops[o].net \in {"notFound", "error"})
               ~> (ops[o].pc = "resolved")

C12_Witness ==
    \E o \in Ops :
        /\ CacheMiss(o)
        /\ ops[o].pc = "resolved"
        /\ ops[o].net = "error"
        /\ ops[o].logged = 1

\* the cached records that satisfy the filter for params, in store order
MatchingCached(tbl, params) ==
    SelectSeq(TableToArray(tbl),
              LAMBDA e : \A k \in EffectiveKeys(params.map) :
                             MatchesParam(e, k, params.map[k]))

ListCacheHit(o) ==
    /\ ops[o].kind = "list"
    /\ ops[o].pc \in {"gotCache", "awaitNet", "resolved"}
    /\ Len(ops[o].cached) > 0

ListCacheMiss(o) ==
    /\ ops[o].kind = "list"
    /\ ops[o].pc \in {"gotCache", "awaitNet", "resolved"}
    /\ Len(ops[o].cached) = 0

LocalRead(o, tbl) ==
    IF ops[o].kind = "getById"
    THEN Maybe(TableGet(tbl, ops[o].arg))
    ELSE FilterEntities(TableToArray(tbl), ops[o].arg)

\* C18: in every getById and list call the local read is started and its result
\* observed before the network outcome is awaited: the request is sent, and the
\* caller waits for it or returns, only from the point where the cached value is
\* held, that value is what the store held when it was read, and no network
\* outcome changes it afterwards.
C18_CacheReadBeforeNetwork ==
    /\ [](\A o \in Ops :
              (ops[o].kind \in Reads /\ ops[o].pc = "reading") =>
                  (ops[o].net = "none" /\ ops[o].bg = "none"))
    /\ [][\A o \in Ops :
              ops[o].kind \in Reads =>
                  /\ (ops[o].net = "none" /\ ops'[o].net # "none")
                         => ops[o].pc = "gotCache"
                  /\ (ops[o].pc # "awaitNet" /\ ops'[o].pc = "awaitNet")
                         => ops[o].pc = "gotCache"
                  /\ (ops[o].pc = "reading" /\ ops'[o].pc # "reading")
                         => (ops'[o].pc = "gotCache"
                             /\ ops'[o].cached = LocalRead(o, table))
                  /\ ops[o].pc \in {"gotCache", "awaitNet", "resolved"}
                         => ops'[o].cached = ops[o].cached]_vars

\* a call that read a record, then waited for nothing while the API answered
C18_Witness ==
    \E o \in Ops :
        /\ ops[o].kind \in Reads
        /\ ops[o].pc = "resolved"
        /\ ops[o].cached # None
        /\ ops[o].net = "ok"
        /\ ops[o].data # ops[o].cached

\* the request of a create / update / remove call has failed
WriteNetFailed(o) ==
    /\ ops[o].kind \in Writes
    /\ ops[o].net \in {"error", "notFound"}

Size == Cardinality(PendingNames) + Cardinality(registeredTables)

\* C30: the pending set and the registered set are disjoint in every reachable
\* state, so Query.size equals the number of distinct names registerTable accepted.
C30_SizeCountsDistinctNames ==
    /\ PendingNames \cap registeredTables = {}
    /\ Size = Cardinality(accepted)

SerializeIdApplied == pure.fn = "serializeId" /\ pure.done

\* the primitive value an identifier gives a key field, a reference unwrapped
PrimitiveOf(id, field) == id.props[field].id

\* two identifiers agree on the primitive value of every key field
SameKey(a, b, keyFields) ==
    \A f \in Range(keyFields) : PrimitiveOf(a, f) = PrimitiveOf(b, f)

\* C23: with keyFields, serializeId returns the same string for two identifier
\* objects that agree on the primitive value of every key field, whatever the
\* insertion order of their properties, their extra properties, and whether a key
\* field is a primitive or a one-level {id} reference.
C23_SerializeIdCanonical ==
    (SerializeIdApplied /\ SameKey(pure.a, pure.b, pure.keyFields)) =>
        /\ pure.outA.json
        /\ pure.outA = pure.outB

\* equal keys given in different property order, one with a reference and the
\* other with an extra property
C23_Witness ==
    /\ SerializeIdApplied
    /\ SameKey(pure.a, pure.b, pure.keyFields)
    /\ pure.a.order # pure.b.order
    /\ pure.a.props.spaceId.kind = "ref"
    /\ "color" \in DOMAIN pure.b.props
    /\ pure.outA = pure.outB

KeyOrderApplied ==
    pure.fn = "keyOrder" /\ pure.urlDone /\ pure.keyDone /\ pure.specDone

\* C24: for a composite identifier, position i is the same field in all three
\* orderings: the i-th path segment after baseUrl, the i-th element of the store
\* key and the i-th field of the compound index are the primitive value (or the
\* name) of keyFields[i], one level of {id} nesting unwrapped.
C24_KeyOrderingsAgree ==
    KeyOrderApplied =>
        /\ Len(pure.url) = Len(pure.keyFields) + 1
        /\ pure.url[1] = BaseUrl
        /\ Len(pure.key) = Len(pure.keyFields)
        /\ pure.keySpec.compound
        /\ Len(pure.keySpec.fields) = Len(pure.keyFields)
        /\ \A i \in 1..Len(pure.keyFields) :
               LET value == pure.id[pure.keyFields[i]].id
               IN /\ pure.url[i + 1] = StringOf(value)
                  /\ pure.key[i] = [kind |-> "prim", id |-> value, name |-> ""]
                  /\ pure.keySpec.fields[i] = pure.keyFields[i]

\* the three orderings of an identifier whose first key field is a reference and
\* whose key fields are declared tagName first
C24_Witness ==
    /\ KeyOrderApplied
    /\ pure.keyFields[1] = "tagName"
    /\ pure.id.tagName.kind = "ref"
    /\ pure.id.tagName.id # pure.id.spaceId.id
    /\ pure.key[1].id = pure.id.tagName.id

NormalizeApplied == pure.fn = "normalize" /\ pure.done

IdsExtracted == NormalizeApplied /\ pure.idDone

\* C25: the raw and the normalized form of an entity give the same identifier:
\* getEntityId(normalize(e), keyFields) = getEntityId(e, keyFields), and
\* normalizing a normalized entity changes nothing.
C25_NormalizeKeepsIdentifier ==
    /\ IdsExtracted => pure.idOfNormalized = pure.idOfRaw
    /\ NormalizeApplied => pure.again = pure.out

\* the identifier of an entity whose key field is a reference that normalize
\* replaced
C25_Witness ==
    /\ IdsExtracted
    /\ Len(pure.keyFields) = 2
    /\ pure.input.spaceId.kind = "ref"
    /\ pure.out.spaceId.kind = "prim"
    /\ pure.idOfNormalized = pure.idOfRaw

\* C26: normalize replaces only declared key fields that hold a reference object,
\* by that object's id; every other field, a reference in a non-key field
\* included, is the same in the result, the input entity is not modified, and
\* without keyFields the entity is returned unchanged.
C26_NormalizeIsNarrow ==
    NormalizeApplied =>
        /\ DOMAIN pure.out = DOMAIN pure.input
        /\ \A f \in DOMAIN pure.input :
               IF f \in Range(pure.keyFields) /\ pure.input[f].kind = "ref"
               THEN pure.out[f] = [kind |-> "prim", id |-> pure.input[f].id,
                                   name |-> ""]
               ELSE pure.out[f] = pure.input[f]
        /\ pure.entity = pure.input
        /\ Len(pure.keyFields) = 0 => pure.out = pure.input

\* a key field's reference was replaced while a reference in a non-key field and
\* a reference in an undeclared key field stayed
C26_Witness ==
    /\ NormalizeApplied
    /\ pure.keyFields = <<"spaceId">>
    /\ pure.input.spaceId.kind = "ref"
    /\ pure.out.spaceId.kind = "prim"
    /\ pure.out.tagName.kind = "ref"
    /\ pure.out.owner.kind = "ref"

BuildUrlApplied == pure.fn = "buildUrl" /\ pure.done

\* key=value of a scalar parameter and key=v1,v2,... of an array parameter
QueryPiece(e) ==
    IF e.value.kind = "array"
    THEN <<e.key, "=">>
             \o Join([i \in 1..Len(e.value.vs) |->
                         <<EncodeURIComponent(StringOf(e.value.vs[i]))>>], ",")
    ELSE <<FormEncode(e.key), "=", FormEncode(StringOf(e.value.v))>>

\* the path followed by ? and the parameters separated by &: those the path
\* already has, then the scalar and then the array-valued parameters given
WellFormedUrl(path, params) ==
    LET entries == IF params.given THEN params.entries ELSE <<>>
        scalars == SelectSeq(entries, LAMBDA e : e.value.kind = "scalar")
        arrays == SelectSeq(entries, LAMBDA e : e.value.kind = "array")
        given == scalars \o arrays
        all == path.search \o [i \in 1..Len(given) |-> QueryPiece(given[i])]
    IN <<path.pathname>>
           \o (IF all = <<>> THEN <<>> ELSE <<"?">> \o Join(all, "&"))
           \o (IF path.hash = "" THEN <<>> ELSE <<path.hash>>)

\* C29: buildUrl(path, params) returns the path followed by a well-formed query
\* string: with at least one defined parameter the query part starts with ?, the
\* parameters are separated by &, a scalar or boolean appears as key=value and an
\* array-valued parameter once as key=v1,v2,...; also when every defined
\* parameter is array-valued.
C29_BuildUrlWellFormed ==
    BuildUrlApplied => pure.out = WellFormedUrl(pure.path, pure.params)

\* the call o of a cache operation resolves in this step
Resolves(o, kind) ==
    /\ ops[o].kind = kind
    /\ ops[o].pc = "awaitStore"
    /\ ops'[o].pc = "resolved"

\* the data the reactive cache holds under a key: <<>> when it has no entry
GetQueryData(cache, key) ==
    LET hits == {e \in cache : e.key = key}
    IN IF hits = {} THEN <<>> ELSE (CHOOSE e \in hits : TRUE).data

\* the detail key of a raw item: [name, "detail", JSON of its key fields' primitive
\* values in keyFields order]
DetailKeyOf(item) ==
    [name |-> Res, scope |-> "detail", hasArg |-> TRUE, params |-> NoParams,
     id |-> [json |-> TRUE,
             text |-> <<"{", "\"", "spaceId", "\"", ":", "\"",
                        StringOf(item.spaceId.id), "\"", ",",
                        "\"", "tagName", "\"", ":", "\"",
                        StringOf(item.tagName.id), "\"", "}">>,
             id |-> JsUndefined]]

\* the record the table holds under the identifier of a raw item
StoredUnder(tbl, item) ==
    tbl[[spaceId |-> [kind |-> "prim", id |-> item.spaceId.id, name |-> ""],
         tagName |-> [kind |-> "prim", id |-> item.tagName.id, name |-> ""]]]

\* C27: when seedMany(items, params) resolves, the local store holds the
\* normalized form of every item, the reactive cache's list entry for params is
\* the raw item sequence in the given order and the detail entry of each item's
\* identifier is that raw item; when seedOne(item) resolves, the store holds the
\* normalized item and the detail entry holds the raw item.
C27_SeedWritesStoreAndCache ==
    [][\A o \in Ops :
          /\ Resolves(o, "seedMany") =>
                 LET items == ops[o].value IN
                 /\ \A i \in 1..Len(items) :
                        /\ StoredUnder(table', items[i]) # Null
                        /\ IsStoredFormOf(StoredUnder(table', items[i]), items[i])
                        /\ GetQueryData(qcache', DetailKeyOf(items[i])) = <<items[i]>>
                 /\ \E e \in qcache' :
                        /\ e.key.name = Res
                        /\ e.key.scope = "list"
                        /\ e.key.hasArg = ops[o].arg.given
                        /\ e.key.params = ops[o].arg
                        /\ e.data = items
          /\ Resolves(o, "seedOne") =>
                 LET item == ops[o].value[1] IN
                 /\ StoredUnder(table', item) # Null
                 /\ IsStoredFormOf(StoredUnder(table', item), item)
                 /\ GetQueryData(qcache', DetailKeyOf(item)) = <<item>>
          /\ \A e, f \in qcache' : e.key = f.key => e = f]_vars

\* seedMany with params resolved after a seedOne of an older version of one of its
\* items: store and detail entry hold the later item
C27_Witness ==
    \E o, q \in Ops :
        /\ q < o
        /\ ops[q].kind = "seedOne" /\ ops[q].pc = "resolved"
        /\ ops[o].kind = "seedMany" /\ ops[o].pc = "resolved"
        /\ ops[o].arg.given
        /\ Len(ops[o].value) = 2
        /\ ops[q].value[1].ver < ops[o].value[2].ver
        /\ GetQueryData(qcache, DetailKeyOf(ops[o].value[2])) = <<ops[o].value[2]>>
        /\ StoredUnder(table, ops[o].value[2]).ver = ops[o].value[2].ver
        /\ StoredUnder(table, ops[o].value[2]).spaceId.kind = "prim"

\* C28: when clearCache() resolves, after any seedOne, seedMany, read and write
\* operations on the resource, the resource's table is empty and the reactive
\* cache holds no entry whose key starts with the resource name.
C28_ClearCacheEmptiesResource ==
    [][\A o \in Ops :
          Resolves(o, "clearCache") =>
              /\ \A i \in Ids : table'[i] = Null
              /\ \A e \in qcache' : e.key.name # Res]_vars

\* clearCache resolved after a seedMany had filled table and cache; the other
\* resource's entry is still there
C28_Witness ==
    \E o, q \in Ops :
        /\ q < o
        /\ ops[q].kind = "seedMany" /\ ops[q].pc = "resolved"
        /\ ops[o].kind = "clearCache" /\ ops[o].pc = "resolved"
        /\ \A i \in Ids : table[i] = Null
        /\ qcache = {OtherResourceEntry}

\* C31: for each name at most one registerTable(name) call ever succeeds: once a
\* registration has succeeded hasTable(name) is true in every later state, whatever
\* initializeAll calls run or overlap with registrations.
C31_AcceptedNameStaysKnown ==
    \A n \in accepted : HasTable(n)

\* the migration of call c failed on its own db.open()
OpenFailed(c) == calls[c].job = "rejected" /\ calls[c].applied # {}

\* C32: if reopening the store fails during a migration, initializeAll rejects and
\* leaves the registry as it was before the call: the tables of the batch are still
\* pending, none of them is registered and getTable returns absent for each.
C32_FailedOpenLeavesRegistry ==
    \A c \in Calls :
        OpenFailed(c) =>
            /\ calls[c].pc \in {"awaitCreateTables", "rejected"}
            /\ \A n \in DOMAIN calls[c].tables :
                   /\ n \in PendingNames
                   /\ n \notin registeredTables
                   /\ GetTable(n) = "absent"

\* C33: a failed migration does not disable the registry: the queued job of a later
\* initializeAll call whose batch holds tables that no reopen has created starts
\* a migration for them.
C33_LaterCallStartsMigration ==
    [][\A c \in Calls :
          (/\ calls[c].job = "queued"
           /\ calls'[c].job # "queued"
           /\ DOMAIN calls[c].tables \ opened # {})
              => calls'[c].job = "opening"]_vars

\* the store request of the write o is carried out in this step
Stores(o, kind) ==
    /\ ops[o].kind = kind
    /\ ops[o].pc = "awaitNet"
    /\ ops'[o].pc = "stored"

\* the record the table holds for id after this step was put by the call that
\* takes the step, as the stored form of an entity of its response
PutByStep(id) ==
    \E o \in Ops :
        /\ ops'[o] # ops[o]
        /\ ops[o].kind \in Reads \cup {"create", "update"}
        /\ ops'[o].put.called
        /\ Len(ops'[o].data) = Len(ops'[o].put.records)
        /\ \E k \in 1..Len(ops'[o].put.records) :
               /\ ops'[o].put.records[k] = table'[id]
               /\ IsStoredFormOf(table'[id], ops'[o].data[k])

\* C34 as stated: once remove(id) has resolved, the local store holds no record
\* for id unless a create or update was issued; a read started before the remove
\* cannot re-insert the record.
C34_RemovedStaysAbsent ==
    \A w \in Ops :
        (/\ ops[w].kind = "remove"
         /\ ops[w].pc = "resolved"
         /\ \A q \in Ops \ {w} : ops[q].kind \notin {"create", "update"})
            => table[ops[w].arg] = Null

\* C34, amended: remove(id) deletes the record of id when its store request is
\* carried out, and afterwards a record for id appears only through a store write
\* that lands later: of a create or update, or the background write of a getById
\* or list call, whenever that call was started.
C34_RemovedUntilNextWrite ==
    /\ [][\A o \in Ops : Stores(o, "remove") => table'[ops[o].arg] = Null]_vars
    /\ [][\A id \in Ids :
              (table[id] = Null /\ table'[id] # Null) => PutByStep(id)]_vars

\* a read that was called before the remove wrote its response after the remove
\* had resolved: the record is back although the API no longer has it
C34_Witness ==
    \E r, w \in Ops :
        /\ r < w
        /\ ops[r].kind \in Reads
        /\ ops[r].bg = "done"
        /\ ops[w].kind = "remove"
        /\ ops[w].pc = "resolved"
        /\ server[ops[w].arg] = 0
        /\ table[ops[w].arg] # Null

\* C35 as stated: the local record of an identifier never goes back to an older
\* server version.
C35_VersionNeverGoesBack ==
    [][\A id \in Ids :
          IF table[id] # Null /\ table'[id] # Null
          THEN table'[id].ver >= table[id].ver
          ELSE TRUE]_vars

\* C35, amended: the local record of an identifier is the stored form of the
\* entity of the store write that landed last: update stores the server's entity
\* when its store request is carried out, and every later change of the record is
\* the put of some call's own response, however old that response is.
C35_LastWriteWins ==
    /\ [][\A o \in Ops :
              Stores(o, "update") =>
                  /\ table'[ops[o].arg] # Null
                  /\ IsStoredFormOf(table'[ops[o].arg], ops[o].data[1])]_vars
    /\ [][\A id \in Ids :
              (table'[id] # table[id] /\ table'[id] # Null) => PutByStep(id)]_vars

\* update has resolved with the server's new entity and a read called before it
\* has since written the entity it had fetched earlier
C35_Witness ==
    \E r, w \in Ops :
        /\ r < w
        /\ ops[r].kind \in Reads
        /\ ops[r].bg = "done"
        /\ ops[r].put.called
        /\ ops[w].kind = "update"
        /\ ops[w].pc = "resolved"
        /\ table[ops[w].arg] # Null
        /\ table[ops[w].arg].ver < ops[w].data[1].ver
        /\ server[ops[w].arg] = ops[w].data[1].ver

\* C36: read operations never remove local records: every key present in the
\* local store before a step of a getById or list call, its background store
\* write included, is still present after it, also when the server's list
\* response no longer contains the record.
C36_ReadsNeverRemove ==
    /\ [][\A id \in Ids : table[id] # Null => table'[id] # Null]_vars
    /\ [](\A o \in Ops :
              (ops[o].kind \in Reads /\ ops[o].bg = "done" /\ ops[o].net = "ok")
                  => \A k \in 1..Len(ops[o].cached) :
                         \E id \in Ids :
                             /\ table[id] # Null
                             /\ \A f \in Range(KeyFields) :
                                    table[id][f] = ops[o].cached[k][f])

\* list has written a response that lacks a record the API no longer has, and the
\* record is still in the table
C36_Witness ==
    \E o \in Ops, id \in Ids :
        /\ ops[o].kind = "list"
        /\ ops[o].bg = "done"
        /\ ops[o].net = "ok"
        /\ ops[o].put.called
        /\ ~ops[o].arg.given
        /\ server[id] = 0
        /\ table[id] # Null

\* C37: matchesFilter returns a boolean for every entity and every params object
\* and never throws, also when the entity's field for a defined parameter is null,
\* missing or an object without an id; list never rejects because of what a cached
\* record holds.
C37_MatchesFilterNeverThrows ==
    /\ (pure.fn = "matchesFilter(entries)" /\ pure.done)
           => pure.out \in {"true", "false"}
    /\ (pure.fn = "list(filterEntities)" /\ pure.done) => pure.out # "rejected"

\* C38: no debounced update is lost: when cancel was never called, every
\* debouncedUpdate call has finished and no timer is armed any more (the delay
\* has elapsed, or flush or unmount has run), each of the updates has been sent
\* through resource.update, also when the calls concern different ids or
\* different fields.
C38_NoUpdateLost ==
    (/\ ~hook.cancelCalled
     /\ hook.timers = {}
     /\ \A u \in Updates : hook.updates[u].pc \in {"idle", "scheduled"})
        => \A u \in Updates :
               hook.updates[u].pc = "scheduled" => hook.syncs[u].state # "none"

\* a step of cancel() called by the component: nothing but the pending update, its
\* timer and the record of cancellations changes
CancelReturns ==
    /\ hook'.cancelCalled
    /\ hook' # hook
    /\ hook'.updates = hook.updates
    /\ hook'.syncs = hook.syncs
    /\ hook'.flush = hook.flush
    /\ hook'.mounted = hook.mounted

\* C39: at most one API-sync timer is armed at any time, whatever the interleaving
\* of overlapping debouncedUpdate calls, timer expiries, flush and cancel; when
\* cancel() returns no timer is armed, and an update that was cancelled is never
\* sent by a timer.
C39_OneTimerArmed ==
    /\ [](Cardinality(hook.timers) <= 1)
    /\ [](\A t \in hook.timers : hook.pendingUpdateRef = t)
    /\ [][CancelReturns => (hook'.timers = {} /\ hook'.pendingUpdateRef = 0)]_vars
    /\ [](\A u \in hook.cancelled : hook.syncs[u].by # "timer")

\* the component cancelled the only scheduled update while a later debouncedUpdate
\* call was still saving; the cancelled update has not been sent
C39_Witness ==
    \E u \in hook.cancelled :
        /\ hook.cancelCalled
        /\ hook.mounted
        /\ hook.flush.pc = "idle"
        /\ hook.timers = {}
        /\ hook.syncs[u].state = "none"
        /\ \A v \in Updates \ {u} : hook.updates[v].pc # "scheduled"
        /\ \E v \in Updates : hook.updates[v].pc = "put"

\* C40: when flush() resolves, the update that was pending at its call has been
\* sent and no API sync started by the hook is still in flight, also when two
\* syncs overlapped.
C40_FlushWaitsForAllSyncs ==
    [][(hook.flush.pc # "resolved" /\ hook'.flush.pc = "resolved")
           => /\ \A u \in Updates : hook'.syncs[u].state # "inflight"
              /\ hook'.flush.on # 0 => hook'.syncs[hook'.flush.on].state = "settled"]_vars

====
